---- MODULE Spec2Model ----
(***************************************************************************)
(* The multi-user endpoint manager (EndpointManager) of                    *)
(* globus_compute_endpoint/endpoint/endpoint_manager.py as a state         *)
(* machine: the dispatch loop (_event_loop), the child registry, the TTL   *)
(* cache of start arguments, reaping and revival (wait_for_children,       *)
(* _revive_child), the command handler (cmd_start_endpoint), the failure   *)
(* notice (send_failure_notice) and the shutdown sequence of start().      *)
(***************************************************************************)
EXTENDS Integers, Sequences, FiniteSets, TLC

\* ---------------------------------------------------------------- bounds
MaxPid == 2        \* process ids the kernel hands out: 1..MaxPid
MaxMsgs == 2       \* deliveries the subscriber deposits in one run
MaxTime == 1       \* ticks of the monotonic clock in one run
GracePeriod == 1   \* config.mu_child_ep_grace_period_s of the modelled run
Uptime == 30       \* time.monotonic() when the manager starts

\* ------------------------------------------------------ program constants
max_skew_s == 180
MINIMUM_HEARTBEAT == 5
EX_OSFILE == 72

\* ------------------------------------------------------------ input sets
Pids == 1..MaxPid
NoPid == 0
mu_user == "mu"                       \* pwd.getpwuid(os.getuid()).pw_name
alias_user == "toor"                  \* a second account with the manager's uid
NoUser == "none"                      \* local_user_info = None
JSON == "application/json"
ContentTypes == {JSON, "text/plain"}
\* wall clock readings of time.time(), in half seconds: 180.0 s, 180.5 s and
\* 181.0 s
WallHalves == {360, 361, 362}
\* props.timestamp values, whole seconds
Timestamps == {0, 1, 362}
\* the sub values of globus_identity_set; "bad" is a set whose records
\* carry no `sub` key
IdentitySets == {{"A"}, {"B"}, {"M"}, {"S"}}
Commands == {"cmd_start_endpoint", "cmd_nuke", "start_endpoint"}
\* kwargs.name; "" is a missing or empty name; "1" is also str(pid) of pid 1
Names == {"ep1", "1"}

PidStr(p) == IF p = 1 THEN "1" ELSE IF p = 2 THEN "2" ELSE IF p = 3 THEN "3"
             ELSE IF p = 4 THEN "4" ELSE "5"

\* kwargs of a command: JSON null (not an object), an object without a name,
\* or an object whose name is one of Names
KwNull == "null"
KwNoName == "{}"
KwargsValues == {KwNull, KwNoName} \cup Names
KwName(k) == IF k \in Names THEN k ELSE ""

\* The well-formed start command, and the commands that may arrive: the
\* well-formed one with one field changed, a stale one that also has the
\* wrong content type or null kwargs, and one that names no handler and has
\* null kwargs.
GoodMsg == [content_type |-> JSON, body_ok |-> TRUE, ts |-> 0, has_ids |-> TRUE,
            idset |-> {"A"}, command |-> "cmd_start_endpoint", kwargs |-> "ep1"]

OneDefect ==
    {[GoodMsg EXCEPT !.content_type = v] : v \in ContentTypes}
    \cup {[GoodMsg EXCEPT !.body_ok = v] : v \in BOOLEAN}
    \cup {[GoodMsg EXCEPT !.ts = v] : v \in Timestamps}
    \cup {[GoodMsg EXCEPT !.has_ids = v] : v \in BOOLEAN}
    \cup {[GoodMsg EXCEPT !.idset = v] : v \in IdentitySets \cup {{}}}
    \cup {[GoodMsg EXCEPT !.command = v] : v \in Commands}
    \cup {[GoodMsg EXCEPT !.kwargs = v] : v \in KwargsValues}

Messages == OneDefect
            \cup {[GoodMsg EXCEPT !.ts = 362, !.content_type = "text/plain"],
                  [GoodMsg EXCEPT !.ts = 362, !.kwargs = KwNull],
                  [GoodMsg EXCEPT !.command = "cmd_nuke", !.kwargs = KwNull]}

\* What one iteration of the loop reads besides its own state: the delivery,
\* time.time() in half seconds, and whether pwd.getpwnam finds the account
\* the identity maps to.  The well-formed command arrives 180.0 s after its
\* timestamp at a host that has the account; the other inputs differ from
\* that in the delivery, in the clock or in the account.
GoodInput == [msg |-> GoodMsg, wall |-> 360, found |-> TRUE]

Inputs == {[GoodInput EXCEPT !.msg = m] : m \in Messages}
          \cup {[GoodInput EXCEPT !.wall = w] : w \in WallHalves}
          \cup {[GoodInput EXCEPT !.found = b] : b \in BOOLEAN}

WithTag(m, t) == [content_type |-> m.content_type, body_ok |-> m.body_ok,
                  ts |-> m.ts, has_ids |-> m.has_ids, idset |-> m.idset,
                  command |-> m.command, kwargs |-> m.kwargs, tag |-> t]

\* ------------------------------------------------------------- pure parts
Abs(x) == IF x < 0 THEN -x ELSE x

\* Python's round() of a float given in half seconds: ties go to the even
\* integer
Round(h) == LET q == h \div 2
            IN IF h % 2 = 0 THEN q ELSE IF q % 2 = 0 THEN q ELSE q + 1

\* the distance between time.time() and the command's timestamp, in half
\* seconds
Skew(wall, ts) == Abs(wall - 2 * ts)

\* the gate with >= for >
TooOldAtLimit(wall, ts) == Abs(Round(wall) - ts) >= max_skew_s

\* line 573: abs(now - server_cmd_ts) > max_skew_s, now = round(time.time())
TooOld(wall, ts) == Abs(Round(wall) - ts) > max_skew_s

\* line 527: ^cmd_[A-Za-z][0-9A-Za-z_]{0,99}$ on the command names of Commands
ValidMethodName(c) == c \in {"cmd_start_endpoint", "cmd_nuke"}

\* line 678: getattr(self, command, None)
HasHandler(c) == c = "cmd_start_endpoint"

\* the identity mapping policy of the run: identity A is alice, identity M is
\* the account the manager itself runs as, identity S is another account
\* with the same uid, anything else maps to nobody
MapIdentity(ids) == IF "A" \in ids THEN "alice"
                    ELSE IF "M" \in ids THEN mu_user
                    ELSE IF "S" \in ids THEN alias_user
                    ELSE ""

\* a cache whose entries never expire
LiveForever(ca, p, now) == p \in DOMAIN ca

\* ---------------------------------------------- TTLCache (cachetools)
\* an entry is visible while timer() < expires
Live(ca, p, now) == p \in DOMAIN ca /\ now < ca[p].expires

Restrict(f, S) == [x \in S |-> f[x]]

\* TTLCache.__setitem__: expire(time) drops every dead entry, then the item
\* is stored with expires = time + ttl
CacheSet(ca, p, v, now) ==
    LET kept == {q \in DOMAIN ca : now < ca[q].expires} \ {p}
    IN [q \in kept \cup {p} |->
          IF q = p THEN [user |-> v.user, kw |-> v.kw, name |-> v.name,
                         expires |-> now + GracePeriod]
          ELSE ca[q]]

\* a pop that returns the entry and leaves it in the cache
CachePopKeeps(ca, p, now) == ca

\* a pop that stores an entry under the key instead
CachePopInserts(ca, p, now) ==
    CacheSet(ca, p, [user |-> NoUser, kw |-> 0, name |-> ""], now)

\* TTLCache.pop(key, None): a live entry is removed and returned, a dead or
\* missing one leaves the cache as it is
CachePop(ca, p, now) == IF Live(ca, p, now) THEN Restrict(ca, DOMAIN ca \ {p}) ELSE ca

\* ------------------------------------------------------------------ state
VARIABLES
    cfg,                \* Config and the privileges of the process
    identity_mapper,    \* TRUE iff self.identity_mapper is not None
    allow_same_user,    \* self._allow_same_user
    heartbeat_period,   \* self._heartbeat_period
    parent_identities,  \* the local of _event_loop
    pc,                 \* where the supervisor thread is
    exit_status,        \* sys.exit() code of the manager, -1 while it runs
    time_to_stop,       \* self._time_to_stop
    wait_for_child,     \* self._wait_for_child
    command_stop_event, \* self._command_stop_event
    command_queue,      \* self._command_queue: the delivery tags in it
    ndeliveries,        \* deliveries deposited so far (the last delivery tag)
    cur,                \* d_tag of the delivery the loop has taken, 0 if none
    children,           \* self._children, in insertion order
    cached,             \* self._cached_cmd_start_args
    procs,              \* the kernel's table of the manager's child processes
    mono,               \* time.monotonic()
    last_heartbeat,     \* the local of _event_loop
    wfc_ret,            \* where wait_for_children returns to
    acked,              \* delivery tags acked, in order
    processed,          \* delivery tags whose handling has ended, in order
    ev,                 \* what the last step did
    lc,                 \* a launch child: the forked branch of cmd_start_endpoint
    creds,              \* the real and effective uid and gid of the manager
    signalled,          \* the signalling attempts of the shutdown, in order,
                        \* for the children that are still registered
    ctor,               \* a run of EndpointManager.__init__, step by step
    reg,                \* a call of register_endpoint, step by step
    conf                \* a run of Config.__init__, step by step

vars == <<cfg, identity_mapper, allow_same_user, heartbeat_period,
          parent_identities, pc, exit_status, time_to_stop,
          wait_for_child, command_stop_event, command_queue, ndeliveries, cur,
          children, cached, procs, mono, last_heartbeat, wfc_ret, acked, processed, ev, lc,
          creds, signalled, ctor, reg, conf>>

\* ------------------------------------------------------- the child registry
ChildPids(ch) == {ch[i].pid : i \in DOMAIN ch}

RECURSIVE WithoutPid(_, _)
\* self._children.pop(pid, None)
WithoutPid(ch, p) == IF ch = <<>> THEN <<>>
                     ELSE IF Head(ch).pid = p THEN Tail(ch)
                     ELSE <<Head(ch)>> \o WithoutPid(Tail(ch), p)

\* a lookup that never finds the name
NoneNamed(ch, n) == NoPid

\* a lookup that takes the first child whatever its name
FirstAny(ch, n) == IF ch = <<>> THEN NoPid ELSE ch[1].pid

\* the first (p, r) of self._children.items() with r.ep_name == ep_name
FirstNamed(ch, n) ==
    LET hits == {i \in DOMAIN ch : ch[i].ep_name = n}
    IN IF hits = {} THEN NoPid
       ELSE ch[CHOOSE i \in hits : \A j \in hits : i <= j].pid

UidOf(u) == IF u \in {mu_user, alias_user} THEN 1000 ELSE 1001

\* user_record.pw_gid: every account has its own primary group
GidOf(u) == UidOf(u)

NoExc == "none"

\* a test that compares the user names only
SameName(user) == user = mu_user

\* line 796: uname == p_uname or uid == os.getuid()
SameUser(user) == user = mu_user \/ UidOf(user) = UidOf(mu_user)

\* what os.fork() may return in the parent: NoPid stands for fork() raising,
\* and the kernel hands out the lowest pid that is free, so the pid of a
\* reaped child is handed out again
ForkResults(pr) == LET free == Pids \ DOMAIN pr
                   IN {NoPid} \cup {p \in free : \A q \in free : p <= q}

\* send_failure_notice(kwargs, ..., fork=True), the parent's side.  The
\* helper is forked first; the parent then reads kwargs.get('name') and
\* records the helper.
send_failure_notice(w, kwargs, forked) ==
    IF forked = NoPid
    THEN [children |-> w.children, cached |-> w.cached, procs |-> w.procs,
          exc |-> "OSError", pid |-> NoPid]
    ELSE LET pr == [q \in DOMAIN w.procs \cup {forked} |->
                      IF q = forked
                      THEN [kind |-> "helper", st |-> "run", rc |-> 0, own_group |-> FALSE]
                      ELSE w.procs[q]]
         IN IF kwargs = KwNull
            THEN [children |-> w.children, cached |-> w.cached, procs |-> pr,
                  exc |-> "AttributeError", pid |-> forked]
            ELSE [children |-> Append(w.children,
                                      [pid |-> forked, ep_name |-> PidStr(forked),
                                       user |-> NoUser]),
                  cached |-> w.cached, procs |-> pr, exc |-> NoExc,
                  pid |-> forked]

\* cmd_start_endpoint(user_record, args, kwargs), the parent's side
cmd_start_endpoint(w, user, kwargs, kwtag, allow_same, now, forked) ==
    LET ep_name == KwName(kwargs)
        running == FirstNamed(w.children, ep_name)
        same == [children |-> w.children, cached |-> w.cached,
                 procs |-> w.procs, exc |-> NoExc, pid |-> NoPid,
                 cached_at |-> NoPid]
    IN IF ep_name = ""
       THEN [same EXCEPT !.exc = "InvalidCommandError"]
       ELSE IF running # NoPid
       THEN [same EXCEPT !.cached = CacheSet(w.cached, running,
                                             [user |-> user, kw |-> kwtag,
                                              name |-> ep_name], now),
                         !.cached_at = running]
       ELSE IF ~allow_same /\ SameUser(user)
       THEN [same EXCEPT !.exc = "InvalidUserError"]
       ELSE IF forked = NoPid
       THEN [same EXCEPT !.exc = "OSError"]
       ELSE [same EXCEPT
               !.procs = [q \in DOMAIN w.procs \cup {forked} |->
                            IF q = forked
                            THEN [kind |-> "uep", st |-> "boot", rc |-> 0, own_group |-> FALSE]
                            ELSE w.procs[q]],
               !.children = Append(w.children,
                                   [pid |-> forked, ep_name |-> ep_name,
                                    user |-> user]),
               !.pid = forked]

\* -------------------------------------------------------------- start-up
\* a period that is taken from the configuration as it is
Unclamped(a, b) == b
Max(a, b) == IF a >= b THEN a ELSE b

\* is_privileged(): "none" has no privilege at all, "other" holds some
\* capability but cannot change uid, "setuid" can change uid
Privileged(c) == c.priv # "none"
UserPrivileged(c) == c.priv = "setuid"

\* lines 200-222: the process can change uid and the configuration names no
\* identity mapping file
PathNeverMissing(c) == FALSE
MissingMapperPath(c) == UserPrivileged(c) /\ ~c.path

\* the configurations and privileges the runs start from
Configs == {[priv |-> "none", path |-> TRUE, force |-> FALSE, heartbeat_period |-> 1],
            [priv |-> "other", path |-> FALSE, force |-> FALSE, heartbeat_period |-> 5],
            [priv |-> "setuid", path |-> TRUE, force |-> FALSE, heartbeat_period |-> 30],
            [priv |-> "setuid", path |-> TRUE, force |-> TRUE, heartbeat_period |-> 0],
            [priv |-> "setuid", path |-> FALSE, force |-> FALSE, heartbeat_period |-> 30]}

NoEv == [kind |-> "init", tag |-> 0, outcome |-> "", handler |-> FALSE,
         notice |-> "none", uep |-> NoPid, cached_at |-> NoPid,
         json |-> TRUE, decoded |-> TRUE, skew |-> 0, trusted |-> FALSE,
         user |-> NoUser, name |-> "",
         pid |-> NoPid, rc |-> 0, live |-> FALSE, stop |-> FALSE,
         revive |-> FALSE, restart |-> FALSE, period |-> -1,
         attempts |-> <<>>]

\* no launch child yet: `n` launches have ended, `seen` is what the parent
\* has learnt from them
LcIdle == [pc |-> "parent", n |-> 0, caller |-> "", user |-> NoUser,
           change |-> FALSE, i |-> 1, exit_code |-> 0, failed |-> "",
           raised |-> "", pending |-> -1, status |-> -1, trail |-> <<>>,
           seen |-> {}]

\* endpoint ids: the two UUIDs of the runs, and none
UUIDs == {"U1", "U2"}
NoId == ""

\* __init__ has not begun
CtorIdle == [pc |-> "idle", known |-> NoId, have_reg |-> FALSE,
             registered |-> FALSE, error |-> "", status |-> 0,
             upstream |-> NoId, endpoint_uuid |-> NoId,
             endpoint_json |-> NoId, written |-> FALSE, mapper |-> FALSE,
             command |-> FALSE, publisher |-> FALSE, exit |-> -1,
             raised |-> ""]

\* register_endpoint has not been called
RegIdle == [pc |-> "idle", endpoint_uuid |-> NoId, file |-> FALSE,
            file_id |-> NoId, has_id |-> FALSE, is_str |-> FALSE,
            id |-> NoId, pubkey |-> FALSE, certs_dir |-> FALSE,
            keyfile |-> FALSE, raised |-> ""]

\* the arguments of Config() that stand for None
None == "None"

\* Config.__init__ has not begun
ConfIdle == [pc |-> "idle", kwargs |-> {}, path |-> None, files |-> {},
             soft |-> 0, multi_user_arg |-> None, warned |-> <<>>,
             multi_user |-> FALSE, identity_mapping_config_path |-> "unset",
             idle_heartbeats_soft |-> -1, raised |-> ""]

\* EndpointManager.__init__, when the registration succeeds
Init ==
    /\ lc = LcIdle
    /\ ctor = CtorIdle
    /\ reg = RegIdle
    /\ conf = ConfIdle
    /\ creds = [uid |-> UidOf(mu_user), gid |-> GidOf(mu_user)]
    /\ signalled = <<>>
    /\ cfg \in Configs
    /\ identity_mapper = (UserPrivileged(cfg) /\ cfg.path)
    /\ allow_same_user = (~Privileged(cfg) \/ cfg.force)
    /\ heartbeat_period = Max(MINIMUM_HEARTBEAT, cfg.heartbeat_period)
    /\ IF MissingMapperPath(cfg)
       THEN pc = "exited" /\ exit_status = EX_OSFILE
       ELSE pc = "start" /\ exit_status = -1
    /\ parent_identities = {}
    /\ time_to_stop = FALSE
    /\ wait_for_child = FALSE
    /\ command_stop_event = FALSE
    /\ command_queue = <<>>
    /\ ndeliveries = 0
    /\ cur = 0
    /\ children = <<>>
    /\ cached = <<>>
    /\ procs = <<>>
    /\ mono = Uptime
    /\ last_heartbeat = 0
    /\ wfc_ret = ""
    /\ acked = <<>>
    /\ processed = <<>>
    /\ ev = NoEv

\* what `ev` holds after a step of another thread, the kernel or the clock
EnvEv == [NoEv EXCEPT !.kind = "env"]

Running == pc \notin {"exited", "killed", "done"}

\* the dispatch loop has not ended: what the subscriber, a stop signal or the
\* administrator does can still reach it
InLoop == pc \in {"start", "loop", "poll", "handle"}
          \/ (pc = "waitpid" /\ wfc_ret = "poll")

\* ------------------------------------------------- the other threads, the
\* kernel and the clock
\* CommandQueueSubscriber: a delivery arrives and is put on the queue
Deposit ==
    /\ InLoop /\ ~command_stop_event /\ ndeliveries < MaxMsgs
    /\ ndeliveries' = ndeliveries + 1
    /\ command_queue' = Append(command_queue, ndeliveries + 1)
    /\ ev' = EnvEv
    /\ UNCHANGED <<conf, reg, ctor, creds, signalled, lc, cfg, identity_mapper, allow_same_user, heartbeat_period,
                   parent_identities, pc, exit_status, time_to_stop,
                   wait_for_child, command_stop_event, cur, children, cached,
                   procs, mono, last_heartbeat,
                   wfc_ret, acked, processed>>

\* CommandQueueSubscriber gives up and sets its stop_event
SubscriberStops ==
    /\ InLoop /\ ~command_stop_event
    /\ command_stop_event' = TRUE
    /\ ev' = EnvEv
    /\ UNCHANGED <<conf, reg, ctor, creds, signalled, lc, cfg, identity_mapper, allow_same_user, heartbeat_period,
                   parent_identities, pc, exit_status, time_to_stop,
                   wait_for_child, command_queue, ndeliveries, cur, children,
                   cached, procs, mono, last_heartbeat, wfc_ret, acked, processed>>

\* request_shutdown: SIGTERM, SIGINT or SIGQUIT is delivered
request_shutdown ==
    /\ InLoop /\ pc # "start" /\ ~time_to_stop
    /\ time_to_stop' = TRUE
    /\ ev' = EnvEv
    /\ UNCHANGED <<conf, reg, ctor, creds, signalled, lc, cfg, identity_mapper, allow_same_user, heartbeat_period,
                   parent_identities, pc, exit_status,
                   wait_for_child, command_stop_event, command_queue,
                   ndeliveries, cur, children, cached, procs, mono, last_heartbeat, wfc_ret, acked, processed>>

\* a launch child reaches execvpe: the user endpoint runs, in its own session
ChildExec(p) ==
    /\ Running /\ p \in DOMAIN procs
    /\ procs[p].kind = "uep" /\ procs[p].st = "boot"
    /\ procs' = [procs EXCEPT ![p].st = "run", ![p].own_group = TRUE]
    /\ ev' = EnvEv
    /\ UNCHANGED <<conf, reg, ctor, creds, signalled, lc, cfg, identity_mapper, allow_same_user, heartbeat_period,
                   parent_identities, pc, exit_status, time_to_stop,
                   wait_for_child, command_stop_event, command_queue,
                   ndeliveries, cur, children, cached, mono,
                   last_heartbeat, wfc_ret, acked, processed>>

\* exit codes a child ends with by itself: a helper always sys.exit()s with
\* 0, a launch child that fails before exec leaves a breadcrumb (70 and up),
\* a user endpoint that stops ends with 0
ExitCodes(proc) == IF proc.kind = "helper" THEN {0}
                   ELSE IF proc.st = "boot" THEN {71}
                   ELSE {0}

\* a child ends; the kernel keeps it as a zombie and sends SIGCHLD, whose
\* handler is set_child_died
ChildExit(p, rc) ==
    /\ Running /\ p \in DOMAIN procs /\ procs[p].st # "zombie"
    /\ rc \in ExitCodes(procs[p])
    /\ procs' = [procs EXCEPT ![p].st = "zombie", ![p].rc = rc]
    /\ wait_for_child' = TRUE
    /\ ev' = EnvEv
    /\ UNCHANGED <<conf, reg, ctor, creds, signalled, lc, cfg, identity_mapper, allow_same_user, heartbeat_period,
                   parent_identities, pc, exit_status, time_to_stop,
                   command_stop_event, command_queue, ndeliveries, cur,
                   children, cached, mono, last_heartbeat, wfc_ret, acked, processed>>

\* the monotonic clock advances
Tick ==
    /\ Running /\ mono < Uptime + MaxTime
    /\ mono' = mono + 1
    /\ ev' = EnvEv
    /\ UNCHANGED <<conf, reg, ctor, creds, signalled, lc, cfg, identity_mapper, allow_same_user, heartbeat_period,
                   parent_identities, pc, exit_status, time_to_stop,
                   wait_for_child, command_stop_event, command_queue,
                   ndeliveries, cur, children, cached, procs,
                   last_heartbeat, wfc_ret, acked, processed>>

\* a loop that starts without any identity to match requests against
IdentitiesOptional(ids) == FALSE

\* lines 504-524: userinfo() raised (no identity was added to the set), or
\* the identity set it returned is empty, which raises LookupError
NoIdentities(ids) == ids = {}

\* ---------------------------------------------------- the dispatch loop
\* _event_loop up to the while: an unprivileged manager fetches the identity
\* set of its own credential; `ids` is what userinfo returned ({} also stands
\* for the request failing)
EventLoopEntry ==
    /\ pc = "start"
    /\ IF ~Privileged(cfg)
       THEN \E ids \in {{}, {"A"}} :
              /\ parent_identities' = ids
              /\ IF NoIdentities(ids)
                 THEN time_to_stop' = TRUE /\ pc' = "shutdown"
                 ELSE time_to_stop' = time_to_stop /\ pc' = "loop"
       ELSE /\ parent_identities' = {}
            /\ time_to_stop' = time_to_stop
            /\ pc' = "loop"
    /\ ev' = [NoEv EXCEPT !.kind = "loop_entry"]
    /\ UNCHANGED <<conf, reg, ctor, creds, signalled, lc, cfg, identity_mapper, allow_same_user, heartbeat_period,
                   exit_status, wait_for_child, command_stop_event,
                   command_queue, ndeliveries, cur, children, cached, procs, mono, last_heartbeat, wfc_ret,
                   acked, processed>>

\* a heartbeat that carries the period also at shutdown
PeriodAlways(shutting_down) == heartbeat_period

\* send_heartbeat(shutting_down): the period the published report carries
HeartbeatPayload(shutting_down) == IF shutting_down THEN 0 ELSE heartbeat_period

\* a queue that hands out the newest delivery
QueueGetLast(q) == [tag |-> q[Len(q)], rest |-> SubSeq(q, 1, Len(q) - 1)]

\* self._command_queue.get(): the oldest delivery and the rest of the queue
QueueGet(q) == [tag |-> Head(q), rest |-> Tail(q)]

\* a loop that takes the delivery and never acks it
NoAck(log, tag) == log

\* a loop that acks the delivery again after it has dealt with it
AckTwice(log, tag) == Append(Append(log, tag), tag)

\* self._command.ack(d_tag)
Ack(log, tag) == Append(log, tag)

\* a loop that looks at the subscriber's stop event after every poll
StopAfterAnyPoll(stop, stop_event, empty) == stop \/ stop_event

\* lines 548-550: _time_to_stop after a poll; only the except queue.Empty
\* clause looks at self._command_stop_event
StopAfterPoll(stop, stop_event, empty) == stop \/ (empty /\ stop_event)

\* lines 533-554: the heartbeat when it is due (`alive` is
\* self._heartbeat_publisher.is_alive()), then the poll of the queue: a
\* delivery is taken and acked, or the poll times out on an empty queue
HeartbeatAndPoll ==
    /\ \E alive \in BOOLEAN :
         LET due == mono - last_heartbeat >= heartbeat_period
             period == IF due /\ alive THEN HeartbeatPayload(FALSE) ELSE -1
         IN /\ last_heartbeat' = IF due THEN mono ELSE last_heartbeat
            /\ IF command_queue # <<>>
               THEN LET got == QueueGet(command_queue)
                    IN /\ cur' = got.tag
                       /\ command_queue' = got.rest
                       /\ acked' = Ack(acked, got.tag)
                       /\ pc' = "handle"
                       /\ ev' = [NoEv EXCEPT !.kind = "get", !.tag = got.tag,
                                             !.period = period]
                       /\ time_to_stop' = StopAfterPoll(time_to_stop,
                                                        command_stop_event,
                                                        FALSE)
               ELSE /\ time_to_stop' = StopAfterPoll(time_to_stop,
                                                     command_stop_event, TRUE)
                    /\ pc' = "loop"
                    /\ ev' = [NoEv EXCEPT !.kind = "queue_empty",
                                          !.period = period]
                    /\ UNCHANGED <<cur, command_queue, acked>>

\* one pass through the head of the while of _event_loop, lines 529-554: the
\* loop ends when _time_to_stop is set, turns to wait_for_children (which
\* begins by clearing _wait_for_child) when a child has died, and goes on to
\* the heartbeat and the poll
LoopStep ==
    /\ pc = "loop"
    /\ IF time_to_stop
       THEN /\ pc' = "shutdown"
            /\ ev' = [NoEv EXCEPT !.kind = "loop_ends"]
            /\ UNCHANGED <<wait_for_child, wfc_ret, time_to_stop, cur,
                           command_queue, acked, last_heartbeat>>
       ELSE IF wait_for_child
       THEN /\ pc' = "waitpid" /\ wait_for_child' = FALSE /\ wfc_ret' = "poll"
            /\ ev' = [NoEv EXCEPT !.kind = "wait_begins"]
            /\ UNCHANGED <<time_to_stop, cur, command_queue, acked,
                           last_heartbeat>>
       ELSE HeartbeatAndPoll /\ UNCHANGED <<wait_for_child, wfc_ret>>
    /\ UNCHANGED <<conf, reg, ctor, creds, signalled, lc, cfg, identity_mapper, allow_same_user, heartbeat_period,
                   parent_identities, exit_status, command_stop_event,
                   ndeliveries, children, cached, procs, mono, processed>>

\* the rest of that pass when wait_for_children has returned
AfterWait ==
    /\ pc = "poll"
    /\ HeartbeatAndPoll
    /\ UNCHANGED <<wait_for_child, wfc_ret>>
    /\ UNCHANGED <<conf, reg, ctor, creds, signalled, lc, cfg, identity_mapper, allow_same_user, heartbeat_period,
                   parent_identities, exit_status, command_stop_event,
                   ndeliveries, children, cached, procs, mono, processed>>

\* the decoding without the test of the content type
DecodableBody(m) == m.body_ok

\* lines 556-563: the content type is JSON and json.loads(body) succeeds
Decodable(m) == m.content_type = JSON /\ m.body_ok

\* the test of the identity set without the parent's identities
TrustedAny(parent, cmd_identities) == cmd_identities # {}

\* a test that asks whether the command names every parent identity
TrustedSubset(parent, cmd_identities) == parent \subseteq cmd_identities

\* line 620: parent_identities.intersection(cmd_identities) is not empty
Trusted(parent, cmd_identities) == parent \cap cmd_identities # {}

\* lines 556-680: what the loop decides about a delivery before it calls a
\* handler: the reason it drops it, or "dispatch" and the local user.
\* `found`: pwd.getpwnam finds the account the identity maps to.
Verdict(m, wall, found) ==
    IF ~Decodable(m)
    THEN [outcome |-> "undecodable", user |-> NoUser]
    ELSE IF TooOld(wall, m.ts)
    THEN [outcome |-> "stale", user |-> NoUser]
    ELSE IF ~m.has_ids
    THEN [outcome |-> "missing_keys", user |-> NoUser]
    ELSE LET who ==
               IF ~identity_mapper \/ parent_identities # {}
               THEN IF ~Trusted(parent_identities, m.idset)
                    THEN [outcome |-> "untrusted", user |-> NoUser]
                    ELSE [outcome |-> "dispatch", user |-> mu_user]
               ELSE IF MapIdentity(m.idset) = ""
               THEN [outcome |-> "unmapped", user |-> NoUser]
               ELSE IF ~found
               THEN [outcome |-> "no_local_user", user |-> NoUser]
               ELSE [outcome |-> "dispatch", user |-> MapIdentity(m.idset)]
         IN IF who.outcome # "dispatch" THEN who
            ELSE IF ~(ValidMethodName(m.command) /\ HasHandler(m.command))
            THEN [outcome |-> "invalid_command", user |-> who.user]
            ELSE who

\* a loop that sends a failure notice for every delivery it drops
SilentNever(outcome) == FALSE

\* the deliveries the loop drops without a failure notice
Silent(outcome) == outcome = "undecodable"

\* lines 556-709: the rest of the iteration for the delivery `cur`.  Its
\* properties and body are opaque to the manager until this point, so they
\* are drawn here with the clock and the passwd lookup (`in`); `f1` is what
\* os.fork() returns in cmd_start_endpoint and `f2` what it returns in
\* send_failure_notice.
Handle ==
    /\ pc = "handle"
    /\ \E in \in Inputs,
          f1 \in ForkResults(procs), f2 \in ForkResults(procs) :
         LET w0 == [children |-> children, cached |-> cached, procs |-> procs]
             m == WithTag(in.msg, cur)
             wall == in.wall
             v == Verdict(m, wall, in.found)
             called == v.outcome = "dispatch"
             r == cmd_start_endpoint(w0, v.user, m.kwargs, m.tag,
                                     allow_same_user, mono, f1)
             outcome == IF ~called THEN v.outcome
                        ELSE IF r.exc # NoExc THEN r.exc
                        ELSE IF r.cached_at # NoPid THEN "cached"
                        ELSE "started"
             notify == ~Silent(outcome) /\ outcome \notin {"cached", "started"}
             n == send_failure_notice(w0, m.kwargs, f2)
             w1 == IF notify THEN n ELSE IF called THEN r ELSE w0
             raised == notify /\ n.exc # NoExc
         IN /\ children' = w1.children
            /\ cached' = w1.cached
            /\ procs' = w1.procs
            /\ pc' = IF raised THEN "shutdown" ELSE "loop"
            /\ ev' = [NoEv EXCEPT
                        !.kind = "handle", !.tag = m.tag, !.outcome = outcome,
                        !.handler = called,
                        !.json = (m.content_type = JSON),
                        !.decoded = m.body_ok,
                        !.skew = Skew(wall, m.ts),
                        !.trusted = (parent_identities \cap m.idset # {}),
                        !.user = v.user,
                        !.name = IF called THEN KwName(m.kwargs) ELSE "",
                        !.uep = IF called THEN r.pid ELSE NoPid,
                        !.cached_at = IF called THEN r.cached_at ELSE NoPid,
                        !.pid = IF notify THEN n.pid ELSE NoPid,
                        !.notice = IF ~notify THEN "none"
                                   ELSE IF n.pid = NoPid THEN "fork_failed"
                                   ELSE IF n.exc # NoExc THEN "unregistered"
                                   ELSE "registered"]
    /\ processed' = Append(processed, cur)
    /\ cur' = 0
    /\ UNCHANGED <<conf, reg, ctor, creds, signalled, lc, cfg, identity_mapper, allow_same_user, heartbeat_period,
                   parent_identities, exit_status, time_to_stop, wait_for_child,
                   command_stop_event, command_queue, ndeliveries, mono, last_heartbeat, wfc_ret, acked>>

\* ------------------------------------------------- reaping and revival
Zombies == {p \in DOMAIN procs : procs[p].st = "zombie"}

\* _revive_child(uep_record, cmd_start_args): the passwd entry is looked up
\* again by uid (`found`: the account still exists); every exception of
\* cmd_start_endpoint is logged and dropped
revive_child(w, args, allow_same, now, forked, found) ==
    IF ~found
    THEN [children |-> w.children, cached |-> w.cached, procs |-> w.procs,
          exc |-> "KeyError", pid |-> NoPid, cached_at |-> NoPid,
          restart |-> FALSE]
    ELSE LET r == cmd_start_endpoint(w, args.user, args.name, args.kw,
                                     allow_same, now, forked)
         IN [children |-> r.children, cached |-> r.cached, procs |-> r.procs,
             exc |-> r.exc, pid |-> r.pid, cached_at |-> r.cached_at,
             restart |-> TRUE]

\* a reap that revives also while the manager is shutting down
ReapWhileStopping(w, z, rc, stopping, allow_same, now, forked, found) ==
    LET w1 == [children |-> WithoutPid(w.children, z),
               cached |-> IF rc = 0 THEN CachePop(w.cached, z, now) ELSE w.cached,
               procs |-> Restrict(w.procs, DOMAIN w.procs \ {z})]
    IN IF rc = 0 /\ Live(w.cached, z, now)
       THEN LET r == revive_child(w1, w.cached[z], allow_same, now, forked,
                                   found)
            IN [children |-> r.children, cached |-> r.cached, procs |-> r.procs,
                exc |-> r.exc, pid |-> r.pid, cached_at |-> r.cached_at,
                restart |-> r.restart, revive |-> TRUE]
       ELSE [children |-> w1.children, cached |-> w1.cached,
             procs |-> w1.procs, exc |-> NoExc, pid |-> NoPid,
             cached_at |-> NoPid, restart |-> FALSE, revive |-> FALSE]

\* one turn of the while of wait_for_children for the pid waitpid returned
Reap(w, z, rc, stopping, allow_same, now, forked, found) ==
    LET w1 == [children |-> WithoutPid(w.children, z),
               cached |-> IF rc = 0 THEN CachePop(w.cached, z, now) ELSE w.cached,
               procs |-> Restrict(w.procs, DOMAIN w.procs \ {z})]
        live == Live(w.cached, z, now)
        quiet == [children |-> w1.children, cached |-> w1.cached,
                  procs |-> w1.procs, exc |-> NoExc, pid |-> NoPid,
                  cached_at |-> NoPid, restart |-> FALSE, revive |-> FALSE]
    IN IF rc = 0 /\ ~stopping /\ live
       THEN LET r == revive_child(w1, w.cached[z], allow_same, now, forked,
                                   found)
            IN [children |-> r.children, cached |-> r.cached, procs |-> r.procs,
                exc |-> r.exc, pid |-> r.pid, cached_at |-> r.cached_at,
                restart |-> r.restart, revive |-> TRUE]
       ELSE quiet

\* lines 325-349: waitpid(-1, WNOHANG) returns an exited child, or nothing
WaitPid ==
    /\ pc = "waitpid"
    /\ IF Zombies = {}
       THEN /\ pc' = wfc_ret
            /\ ev' = [NoEv EXCEPT !.kind = "wait_done"]
            /\ UNCHANGED <<children, cached, procs, signalled>>
       ELSE \E z \in Zombies, found \in BOOLEAN :
            \E f \in ForkResults(Restrict(procs, DOMAIN procs \ {z})) :
              LET w0 == [children |-> children, cached |-> cached, procs |-> procs]
                  r == Reap(w0, z, procs[z].rc, time_to_stop, allow_same_user,
                            mono, f, found)
              IN /\ children' = r.children
                 /\ cached' = r.cached
                 /\ procs' = r.procs
                 /\ pc' = pc
                 /\ signalled' = SelectSeq(signalled, LAMBDA e : e.pid # z)
                 /\ ev' = [NoEv EXCEPT
                             !.kind = "reap", !.pid = z, !.rc = procs[z].rc,
                             !.live = Live(cached, z, mono),
                             !.stop = time_to_stop, !.revive = r.revive,
                             !.restart = r.restart, !.uep = r.pid,
                             !.user = IF r.revive THEN cached[z].user
                                      ELSE NoUser,
                             !.name = IF r.revive THEN cached[z].name ELSE "",
                             !.cached_at = r.cached_at, !.outcome = r.exc]
    /\ UNCHANGED <<conf, reg, ctor, creds, lc, cfg, identity_mapper, allow_same_user, heartbeat_period,
                   parent_identities, exit_status, time_to_stop,
                   wait_for_child, command_stop_event, command_queue,
                   ndeliveries, cur, mono, last_heartbeat, wfc_ret, acked, processed>>

\* ------------------------------------------------ the shutdown sequence
\* the registered children whose process group is the manager's own: helpers
\* and launch children that have not called setsid
InManagerGroup == {p \in ChildPids(children) : ~procs[p].own_group}

\* the registered children a signal to their own process group can end
OwnGroupLive == {p \in ChildPids(children) :
                   procs[p].own_group /\ procs[p].st # "zombie"}

\* lines 464-478, one pass over self._children: killpg(getpgid(pid), signum)
\* for every registered child; `dying` are the children the signal ends, with
\* exit status -signum
Signalled(pr, dying, signum) ==
    [p \in DOMAIN pr |-> IF p \in dying
                         THEN [pr[p] EXCEPT !.st = "zombie", !.rc = -signum]
                         ELSE pr[p]]

SIGTERM == 15
SIGKILL == 9

\* the points of one signalling attempt that may raise
Failures == {"none", "setresgid", "setresuid", "getpgid", "killpg"}

\* what the attempts of one pass over n children run into: nothing, or one
\* failure at one child
FailureMaps(n) ==
    {[i \in 1..n |-> "none"]}
    \cup {[i \in 1..n |-> IF i = k THEN f ELSE "none"] :
            k \in 1..n, f \in Failures \ {"none"}}

\* UserEndpointRecord.uid and .gid: -1 without local_user_info
RecUid(rec) == IF rec.user = NoUser THEN -1 ELSE UidOf(rec.user)
RecGid(rec) == IF rec.user = NoUser THEN -1 ELSE GidOf(rec.user)

\* a call that changes nothing
KeepId(current, id) == current

\* os.setresuid(id, id, -1), os.setresgid(id, id, -1): the real and the
\* effective id become `id`, and -1 leaves them as they are
SetResId(current, id) == IF id = -1 THEN current ELSE id

\* a finally clause that leaves the credentials as the attempt left them
NoRestore(c, own) == c

\* lines 476-478: finally: setresuid(proc_uid, proc_uid, -1);
\* setresgid(proc_gid, proc_gid, -1)
Restore(c, own) == [c EXCEPT !.uid = SetResId(@, own.uid),
                             !.gid = SetResId(@, own.gid)]

\* lines 464-478 for one child: setresgid, setresuid, killpg(getpgid(pid),
\* signum) in a try whose except clause logs and whose finally clause
\* restores; `fail` is the call that raises.  `during`: the credentials
\* when the try block ends; `group`: the process group the signal goes to,
\* NoPid for the manager's own.
SignalAttempt(c, own, rec, pr, signum, fail) ==
    LET c1 == IF fail = "setresgid" THEN c
              ELSE [c EXCEPT !.gid = SetResId(@, RecGid(rec))]
        c2 == IF fail \in {"setresgid", "setresuid"} THEN c1
              ELSE [c1 EXCEPT !.uid = SetResId(@, RecUid(rec))]
    IN [pid |-> rec.pid, signum |-> signum, failed |-> fail,
        delivered |-> fail = "none",
        group |-> IF pr[rec.pid].own_group THEN rec.pid ELSE NoPid,
        during |-> c2, after |-> Restore(c2, own)]

RECURSIVE SignalFrom(_, _, _, _, _, _, _)
\* the for loop of lines 464-478 from the i-th child on.  SIGKILL to the
\* manager's own process group ends the manager inside killpg.
SignalFrom(i, c, own, ch, pr, signum, fails) ==
    IF i > Len(ch)
    THEN [creds |-> c, attempts |-> <<>>, killed |-> FALSE]
    ELSE LET a == SignalAttempt(c, own, ch[i], pr, signum, fails[i])
         IN IF a.delivered /\ signum = SIGKILL /\ a.group = NoPid
            THEN [creds |-> a.during, attempts |-> <<a>>, killed |-> TRUE]
            ELSE LET rest == SignalFrom(i + 1, a.after, own, ch, pr, signum,
                                        fails)
                 IN [creds |-> rest.creds,
                     attempts |-> <<a>> \o rest.attempts,
                     killed |-> rest.killed]

\* the pids whose own process group got the signal
Delivered(attempts) ==
    {attempts[i].pid : i \in {j \in DOMAIN attempts :
                                attempts[j].delivered
                                /\ attempts[j].group # NoPid}}

RECURSIVE Logged(_)
\* what the pass adds to the record of attempts
Logged(attempts) ==
    IF attempts = <<>> THEN <<>>
    ELSE <<[pid |-> Head(attempts).pid, signum |-> Head(attempts).signum]>>
         \o Logged(Tail(attempts))

\* a manager that does not get the SIGTERM it sends to its own group
NoSelfSigterm(stop) == stop
\* line 457: os.killpg(os.getpgid(0), SIGTERM) reaches the manager itself,
\* whose handler request_shutdown sets _time_to_stop before the next
\* statement of start() runs
SelfSigterm(stop) == TRUE

\* start(), lines 442-478: the stop events, the terminal heartbeat (`sent`:
\* the publisher is alive and takes it), SIGTERM to the manager's own process
\* group (its handler in the manager is request_shutdown; children still in
\* that group run the same handler and live on), and the SIGTERM pass over
\* the registered children; `dying` are the children the signal ends.  One
\* thing at most goes wrong: the heartbeat or one signalling attempt.
ShutdownBegin ==
    /\ pc = "shutdown"
    /\ command_stop_event' = TRUE
    /\ time_to_stop' = SelfSigterm(time_to_stop)
    /\ \E sent \in BOOLEAN, fails \in FailureMaps(Len(children)) :
         LET pass == SignalFrom(1, creds, creds, children, procs, SIGTERM,
                                fails)
         IN \E dying \in SUBSET (OwnGroupLive \cap Delivered(pass.attempts)) :
              /\ sent \/ \A i \in DOMAIN fails : fails[i] = "none"
              /\ ev' = [NoEv EXCEPT !.kind = "shutdown",
                                    !.period = IF sent THEN HeartbeatPayload(TRUE)
                                               ELSE -1,
                                    !.attempts = pass.attempts]
              /\ procs' = Signalled(procs, dying, SIGTERM)
              /\ wait_for_child' = (wait_for_child \/ dying # {})
              /\ creds' = pass.creds
              /\ signalled' = signalled \o Logged(pass.attempts)
    /\ pc' = "wait_term"
    /\ UNCHANGED wfc_ret
    /\ UNCHANGED <<conf, reg, ctor, lc, cfg, identity_mapper, allow_same_user, heartbeat_period,
                   parent_identities, exit_status, command_queue,
                   ndeliveries, cur, children, cached, mono,
                   last_heartbeat, acked, processed>>

\* lines 480-483: the deadline is set 10 s ahead just before the while is
\* entered, so with a non-empty registry the body runs at least once: the
\* wait is over when the registry is empty, or after a pass of
\* wait_for_children in this phase (wfc_ret = pc)
WaitOver == children = <<>> \/ wfc_ret = pc

\* lines 480-483: while self._children and time.time() < deadline: sleep,
\* wait_for_children(); then the SIGKILL pass, or the end of start().  A
\* SIGKILL to the process group of a child that shares the manager's group
\* ends the manager.
ShutdownWait ==
    /\ pc \in {"wait_term", "wait_kill"}
    /\ \/ /\ children # <<>>
          /\ wait_for_child' = FALSE
          /\ wfc_ret' = pc
          /\ pc' = "waitpid"
          /\ ev' = [NoEv EXCEPT !.kind = "shutdown_wait"]
          /\ UNCHANGED <<procs, creds, signalled>>
       \/ /\ pc = "wait_term" /\ WaitOver
          /\ \E fails \in FailureMaps(Len(children)) :
               LET pass == SignalFrom(1, creds, creds, children, procs,
                                      SIGKILL, fails)
                   dying == OwnGroupLive \cap Delivered(pass.attempts)
               IN /\ creds' = pass.creds
                  /\ signalled' = signalled \o Logged(pass.attempts)
                  /\ IF pass.killed
                     THEN /\ pc' = "killed"
                          /\ ev' = [NoEv EXCEPT !.kind = "sigkill_self",
                                                !.attempts = pass.attempts]
                          /\ UNCHANGED <<procs, wait_for_child>>
                     ELSE /\ pc' = "wait_kill"
                          /\ procs' = Signalled(procs, dying, SIGKILL)
                          /\ wait_for_child' = (wait_for_child \/ dying # {})
                          /\ ev' = [NoEv EXCEPT !.kind = "sigkill_pass",
                                                !.attempts = pass.attempts]
          /\ UNCHANGED wfc_ret
       \/ /\ pc = "wait_kill" /\ WaitOver
          /\ pc' = "done"
          /\ ev' = [NoEv EXCEPT !.kind = "shutdown_complete"]
          /\ UNCHANGED <<procs, wait_for_child, wfc_ret, creds, signalled>>
    /\ UNCHANGED <<time_to_stop, command_stop_event>>
    /\ UNCHANGED <<conf, reg, ctor, lc, cfg, identity_mapper, allow_same_user, heartbeat_period,
                   parent_identities, exit_status, command_queue,
                   ndeliveries, cur, children, cached, mono,
                   last_heartbeat, acked, processed>>

Next ==
    \/ Deposit
    \/ SubscriberStops
    \/ request_shutdown
    \/ \E p \in Pids : ChildExec(p)
    \/ \E p \in Pids, rc \in {0, 71} : ChildExit(p, rc)
    \/ Tick
    \/ EventLoopEntry
    \/ LoopStep
    \/ AfterWait
    \/ Handle
    \/ WaitPid
    \/ ShutdownBegin
    \/ ShutdownWait

Spec == Init /\ [][Next]_vars

\* the steps of the thread that runs start(): every call it blocks in has a
\* timeout (queue.get(timeout=1.0) at line 538, time.sleep(0.5) at line 482),
\* so the thread goes on as long as it has a next statement
Supervisor ==
    \/ EventLoopEntry
    \/ LoopStep
    \/ AfterWait
    \/ Handle
    \/ WaitPid
    \/ ShutdownBegin
    \/ ShutdownWait

\* the manager with a main thread that is never starved
FairSpec == Spec /\ WF_vars(Supervisor)

\* ------------------------------------------------- the launch child
\* The forked branch of cmd_start_endpoint, lines 829-1049, runs in a process
\* of its own; it is followed from fork() to exec or exit, for MaxLaunches
\* launches one after the other.
MaxLaunches == 2

\* what an operation of the pipeline may raise; "none": it succeeds
Errors == {"none", "PermissionError", "OSError"}

\* the exceptions of `except Exception`
AnyError == Errors \ {"none"}

\* The operations of the try block in source order.  `inc`: an
\* `exit_code += 1` follows the operation, before the next one; `branch`: the
\* operation is inside `if (os.getuid(), os.getgid()) != (uid, gid)`;
\* `tolerates`: the exceptions caught around the operation itself.
Pipeline ==
    << [op |-> "setup_logging",       inc |-> FALSE, branch |-> FALSE, tolerates |-> {}],
       [op |-> "load_user_config_template", inc |-> FALSE, branch |-> FALSE, tolerates |-> {}],
       [op |-> "user_environment",    inc |-> FALSE, branch |-> FALSE, tolerates |-> AnyError],
       [op |-> "chdir_root",          inc |-> TRUE,  branch |-> FALSE, tolerates |-> {}],
       [op |-> "initgroups",          inc |-> TRUE,  branch |-> TRUE,  tolerates |-> {"PermissionError"}],
       [op |-> "setresgid",           inc |-> TRUE,  branch |-> TRUE,  tolerates |-> {}],
       [op |-> "setresuid",           inc |-> TRUE,  branch |-> TRUE,  tolerates |-> {}],
       [op |-> "CapState_set_current", inc |-> FALSE, branch |-> FALSE, tolerates |-> {}],
       [op |-> "set_no_new_privs",    inc |-> FALSE, branch |-> FALSE, tolerates |-> {}],
       [op |-> "shutil_which",        inc |-> FALSE, branch |-> FALSE, tolerates |-> {}],
       [op |-> "setsid",              inc |-> TRUE,  branch |-> FALSE, tolerates |-> {}],
       [op |-> "umask",               inc |-> TRUE,  branch |-> FALSE, tolerates |-> {}],
       [op |-> "chdir_wd",            inc |-> TRUE,  branch |-> FALSE, tolerates |-> {}],
       [op |-> "setproctitle",        inc |-> FALSE, branch |-> FALSE, tolerates |-> {}],
       [op |-> "mkdir",               inc |-> FALSE, branch |-> FALSE, tolerates |-> {}],
       [op |-> "render_config",       inc |-> TRUE,  branch |-> FALSE, tolerates |-> {}],
       [op |-> "open_devnull",        inc |-> TRUE,  branch |-> FALSE, tolerates |-> {}],
       [op |-> "pipe",                inc |-> TRUE,  branch |-> FALSE, tolerates |-> {}],
       [op |-> "dup2_stdin",          inc |-> TRUE,  branch |-> FALSE, tolerates |-> {}],
       [op |-> "dup2_stdout",         inc |-> TRUE,  branch |-> FALSE, tolerates |-> {}],
       [op |-> "dup2_stderr",         inc |-> TRUE,  branch |-> FALSE, tolerates |-> {}],
       [op |-> "write_stdin",         inc |-> TRUE,  branch |-> FALSE, tolerates |-> {}],
       [op |-> "getrlimit",           inc |-> TRUE,  branch |-> FALSE, tolerates |-> {}],
       [op |-> "closerange",          inc |-> TRUE,  branch |-> FALSE, tolerates |-> {}],
       [op |-> "execvpe",             inc |-> TRUE,  branch |-> FALSE, tolerates |-> {}] >>

\* a breadcrumb that is never advanced
NoBump(code, inc) == code

\* `exit_code += 1` where the source has one
Bump(code, inc) == IF inc THEN code + 1 ELSE code

\* a finally clause that lets a pending SystemExit through
KeepPending(pending, exit_code) == IF pending >= 0 THEN pending ELSE exit_code

\* line 1049: sys.exit(exit_code) in the finally clause raises a new
\* SystemExit, which replaces the exception that was propagating (`pending`
\* is the exit code of a SystemExit on its way, -1 if there is none)
FinallyExit(pending, exit_code) == exit_code

\* `except Exception` in the callers (lines 377, 439, 700): SystemExit is a
\* BaseException but not an Exception
CaughtByCaller(exc) == exc # "SystemExit"

\* the local users a start command can be dispatched for: the mapped
\* identities with an identity mapper, the manager's own user without
LaunchUsers == IF identity_mapper
               THEN {MapIdentity(ids) : ids \in IdentitySets} \ {""}
               ELSE {mu_user}

\* lines 794-832: the fork of cmd_start_endpoint, seen from the child
LaunchFork ==
    /\ pc # "exited" /\ lc.pc = "parent" /\ lc.n < MaxLaunches
    /\ \E user \in LaunchUsers, caller \in {"_event_loop", "_revive_child"} :
         /\ allow_same_user \/ ~SameUser(user)
         /\ lc' = [LcIdle EXCEPT
                     !.pc = "try", !.n = lc.n, !.seen = lc.seen,
                     !.caller = caller, !.user = user,
                     !.change = (<<UidOf(mu_user), GidOf(mu_user)>>
                                 # <<UidOf(user), GidOf(user)>>),
                     !.exit_code = 70]
    /\ UNCHANGED <<creds, signalled, ctor, reg, conf>>
    /\ UNCHANGED <<cfg, identity_mapper, allow_same_user, heartbeat_period,
                   parent_identities, pc, exit_status, time_to_stop,
                   wait_for_child, command_stop_event, command_queue,
                   ndeliveries, cur, children, cached, procs, mono,
                   last_heartbeat, wfc_ret, acked, processed, ev>>

\* lines 833-1038: the next operation of the try block.  It succeeds, or it
\* raises `err`; execvpe does not come back when it succeeds.
LaunchStep ==
    /\ lc.pc = "try"
    /\ LET st == Pipeline[lc.i]
       IN IF st.branch /\ ~lc.change
          THEN lc' = [lc EXCEPT !.i = @ + 1]
          ELSE \E err \in Errors :
                 LET tr == Append(lc.trail, [op |-> st.op, code |-> lc.exit_code,
                                             inc |-> st.inc])
                 IN IF err = "none" \/ err \in st.tolerates
                    THEN IF st.op = "execvpe"
                         THEN lc' = [lc EXCEPT !.pc = "execed", !.trail = tr]
                         ELSE lc' = [lc EXCEPT !.i = @ + 1, !.trail = tr,
                                               !.exit_code = Bump(@, st.inc)]
                    ELSE lc' = [lc EXCEPT !.pc = "except", !.trail = tr,
                                          !.failed = st.op, !.raised = err]
    /\ UNCHANGED <<creds, signalled, ctor, reg, conf>>
    /\ UNCHANGED <<cfg, identity_mapper, allow_same_user, heartbeat_period,
                   parent_identities, pc, exit_status, time_to_stop,
                   wait_for_child, command_stop_event, command_queue,
                   ndeliveries, cur, children, cached, procs, mono,
                   last_heartbeat, wfc_ret, acked, processed, ev>>

\* lines 1039-1046 and 760-765: the except clause calls
\* send_failure_notice(kwargs, msg=msg, fork=False), whose finally clause is
\* sys.exit(): a SystemExit with exit code 0 leaves the except clause
LaunchExcept ==
    /\ lc.pc = "except"
    /\ lc' = [lc EXCEPT !.pc = "finally", !.raised = "SystemExit", !.pending = 0]
    /\ UNCHANGED <<creds, signalled, ctor, reg, conf>>
    /\ UNCHANGED <<cfg, identity_mapper, allow_same_user, heartbeat_period,
                   parent_identities, pc, exit_status, time_to_stop,
                   wait_for_child, command_stop_event, command_queue,
                   ndeliveries, cur, children, cached, procs, mono,
                   last_heartbeat, wfc_ret, acked, processed, ev>>

\* lines 1047-1049: sys.exit(exit_code); the SystemExit goes up through the
\* caller, and the process ends with its code unless a handler catches it
LaunchFinally ==
    /\ lc.pc = "finally"
    /\ lc' = [lc EXCEPT
                !.pc = IF CaughtByCaller("SystemExit") THEN "returned" ELSE "exited",
                !.status = IF CaughtByCaller("SystemExit") THEN -1
                           ELSE FinallyExit(lc.pending, lc.exit_code)]
    /\ UNCHANGED <<creds, signalled, ctor, reg, conf>>
    /\ UNCHANGED <<cfg, identity_mapper, allow_same_user, heartbeat_period,
                   parent_identities, pc, exit_status, time_to_stop,
                   wait_for_child, command_stop_event, command_queue,
                   ndeliveries, cur, children, cached, procs, mono,
                   last_heartbeat, wfc_ret, acked, processed, ev>>

\* lines 325-349: the parent reaps the launch child and logs its exit code;
\* a child that exec'ed is a user endpoint from then on
LaunchReaped ==
    /\ lc.pc \in {"exited", "execed"}
    /\ lc' = [LcIdle EXCEPT
                !.n = lc.n + 1,
                !.seen = IF lc.pc = "exited"
                         THEN lc.seen \cup {[op |-> lc.failed, code |-> lc.status,
                                             change |-> lc.change]}
                         ELSE lc.seen]
    /\ UNCHANGED <<creds, signalled, ctor, reg, conf>>
    /\ UNCHANGED <<cfg, identity_mapper, allow_same_user, heartbeat_period,
                   parent_identities, pc, exit_status, time_to_stop,
                   wait_for_child, command_stop_event, command_queue,
                   ndeliveries, cur, children, cached, procs, mono,
                   last_heartbeat, wfc_ret, acked, processed, ev>>

ChildNext ==
    \/ LaunchFork
    \/ LaunchStep
    \/ LaunchExcept
    \/ LaunchFinally
    \/ LaunchReaped

ChildSpec == Init /\ [][ChildNext]_vars

\* ------------------------- the registry under any order of the handlers
\* The calls that write the registry, the cached arguments and the process
\* table, in any order and any number: the dispatch loop is left out, so
\* that runs are not bounded by the number of deliveries.  These are the
\* variables they leave alone.
not_registry_vars == <<cfg, identity_mapper, allow_same_user, heartbeat_period,
                       parent_identities, pc, exit_status, time_to_stop,
                       wait_for_child, command_stop_event, command_queue,
                       ndeliveries, cur, mono, last_heartbeat, wfc_ret,
                       acked, processed, ev, lc, creds, signalled, ctor, reg,
                       conf>>

\* lines 674-686: the loop calls cmd_start_endpoint for a mapped user
RegistryStart ==
    /\ pc = "start"
    /\ \E user \in LaunchUsers, kwargs \in KwargsValues,
          f \in ForkResults(procs) :
         LET w0 == [children |-> children, cached |-> cached, procs |-> procs]
             r == cmd_start_endpoint(w0, user, kwargs, 0, allow_same_user,
                                     mono, f)
         IN /\ r.exc = NoExc
            /\ children' = r.children
            /\ cached' = r.cached
            /\ procs' = r.procs
    /\ UNCHANGED not_registry_vars

\* the loop calls send_failure_notice for a command it rejects
RegistryNotice ==
    /\ pc = "start"
    /\ \E kwargs \in KwargsValues, f \in ForkResults(procs) :
         LET w0 == [children |-> children, cached |-> cached, procs |-> procs]
             n == send_failure_notice(w0, kwargs, f)
         IN /\ n.exc = NoExc
            /\ children' = n.children
            /\ cached' = n.cached
            /\ procs' = n.procs
    /\ UNCHANGED not_registry_vars

\* lines 325-349: one turn of the while of wait_for_children
RegistryReap ==
    /\ pc = "start"
    /\ \E z \in Zombies, found \in BOOLEAN :
       \E f \in ForkResults(Restrict(procs, DOMAIN procs \ {z})) :
         LET w0 == [children |-> children, cached |-> cached, procs |-> procs]
             r == Reap(w0, z, procs[z].rc, time_to_stop, allow_same_user,
                       mono, f, found)
         IN /\ children' = r.children
            /\ cached' = r.cached
            /\ procs' = r.procs
    /\ UNCHANGED not_registry_vars

RegistryNext ==
    \/ RegistryStart
    \/ RegistryNotice
    \/ RegistryReap
    \/ \E p \in Pids : ChildExec(p)
    \/ \E p \in Pids, rc \in {0, 71} : ChildExit(p, rc)

RegistrySpec == Init /\ [][RegistryNext]_vars

\* ------------------------------------- EndpointManager.__init__, unfolded
EX_DATAERR == 65
EX_UNAVAILABLE == 69
EX_SOFTWARE == 70
EX_TEMPFAIL == 75
EX_NOPERM == 77
EX_CONFIG == 78

\* the HTTP statuses of a GlobusAPIError
HttpStatuses == {400, 404, 409, 422, 423, 500}

\* what gcc.register_endpoint does: it returns registration info with an
\* endpoint_id (or without one), returns None, or raises
Responses ==
    [kind : {"ok"}, id : UUIDs \cup {NoId}, status : {0}]
    \cup {[kind |-> "None", id |-> NoId, status |-> 0]}
    \cup [kind : {"GlobusAPIError"}, id : {NoId}, status : HttpStatuses]
    \cup {[kind |-> "NetworkError", id |-> NoId, status |-> 0]}

\* lines 166-181: the exit code for a GlobusAPIError, -1 when it is re-raised
ExitNotFoundAsData(status) ==
    IF status \in {409, 423} THEN EX_UNAVAILABLE
    ELSE IF status \in {400, 404, 422} THEN EX_DATAERR
    ELSE -1
RegistrationExit(status) ==
    IF status \in {409, 423, 404} THEN EX_UNAVAILABLE
    ELSE IF status \in {400, 422} THEN EX_DATAERR
    ELSE -1

\* line 188: an endpoint id was known and the response has another (or none)
NoMismatch(known, upstream) == FALSE
IdMismatch(known, upstream) == known # NoId /\ upstream # known

\* line 196: uuid.UUID(endpoint_uuid) raises ValueError for str(None)
ValidUUID(id) == id \in UUIDs

\* the variables __init__ leaves alone in the unfolded run
manager_vars == <<cfg, identity_mapper, allow_same_user, heartbeat_period,
                  parent_identities, pc, exit_status, time_to_stop,
                  wait_for_child, command_stop_event, command_queue,
                  ndeliveries, cur, children, cached, procs, mono,
                  last_heartbeat, wfc_ret, acked, processed, ev, lc, creds,
                  signalled>>

CtorExit(code) == [ctor EXCEPT !.pc = "exited", !.exit = code]
CtorRaise(exc) == [ctor EXCEPT !.pc = "raised", !.raised = exc]

\* lines 97-146: the arguments and the endpoint directory.  endpoint.json
\* holds an endpoint id or is absent; the id on disk wins over the argument;
\* reg_info is passed in, with or without an endpoint_id, or is None.
CtorBegin ==
    /\ ctor.pc = "idle"
    /\ \E disk \in {NoId, "U1"}, arg \in UUIDs \cup {NoId},
          info \in {None} \cup UUIDs \cup {NoId} :
         ctor' = [CtorIdle EXCEPT
                    !.pc = IF info = None THEN "register" ELSE "check_id",
                    !.endpoint_json = disk,
                    !.known = IF disk # NoId THEN disk ELSE arg,
                    !.have_reg = info # None,
                    !.upstream = IF info = None THEN NoId ELSE info]
    /\ UNCHANGED <<manager_vars, reg, conf>>

\* lines 147-185: the registration with the web service
CtorRegister ==
    /\ ctor.pc = "register"
    /\ \E r \in Responses :
         LET c == [ctor EXCEPT !.registered = TRUE, !.error = r.kind,
                               !.status = r.status]
         IN ctor' =
              CASE r.kind = "ok" ->
                     [c EXCEPT !.pc = "check_id", !.error = "",
                               !.have_reg = TRUE, !.upstream = r.id]
                [] r.kind = "None" ->
                     [c EXCEPT !.pc = "raised", !.raised = "AssertionError"]
                [] r.kind = "GlobusAPIError" ->
                     IF RegistrationExit(r.status) = -1
                     THEN [c EXCEPT !.pc = "raised", !.raised = r.kind]
                     ELSE [c EXCEPT !.pc = "exited",
                                    !.exit = RegistrationExit(r.status)]
                [] r.kind = "NetworkError" ->
                     [c EXCEPT !.pc = "exited", !.exit = EX_TEMPFAIL]
    /\ UNCHANGED <<manager_vars, reg, conf>>

\* lines 187-197: the endpoint id of the registration info
CtorCheckId ==
    /\ ctor.pc = "check_id"
    /\ ctor' = IF IdMismatch(ctor.known, ctor.upstream)
               THEN CtorExit(EX_SOFTWARE)
               ELSE IF ~ValidUUID(ctor.upstream)
               THEN CtorRaise("ValueError")
               ELSE [ctor EXCEPT !.pc = "mapper",
                                 !.endpoint_uuid = ctor.upstream]
    /\ UNCHANGED <<manager_vars, reg, conf>>

\* lines 199-249: the identity mapper
CtorMapper ==
    /\ ctor.pc = "mapper"
    /\ IF ~UserPrivileged(cfg)
       THEN ctor' = [ctor EXCEPT !.pc = "reg_data"]
       ELSE IF MissingMapperPath(cfg)
       THEN ctor' = CtorExit(EX_OSFILE)
       ELSE \E err \in Errors :
              ctor' = CASE err = "none" ->
                             [ctor EXCEPT !.pc = "reg_data", !.mapper = TRUE]
                        [] err = "PermissionError" -> CtorExit(EX_NOPERM)
                        [] OTHER -> CtorExit(EX_CONFIG)
    /\ UNCHANGED <<manager_vars, reg, conf>>

\* lines 251-265: the queue information of the registration info
CtorRegData ==
    /\ ctor.pc = "reg_data"
    /\ \E complete \in BOOLEAN :
         ctor' = IF complete THEN [ctor EXCEPT !.pc = "write_json"]
                 ELSE CtorExit(EX_DATAERR)
    /\ UNCHANGED <<manager_vars, reg, conf>>

\* lines 267-279: endpoint.json
CtorWriteJson ==
    /\ ctor.pc = "write_json"
    /\ ctor' = [ctor EXCEPT !.pc = "transports", !.written = TRUE,
                            !.endpoint_json = ctor.endpoint_uuid]
    /\ UNCHANGED <<manager_vars, reg, conf>>

\* lines 281-301: the command subscriber and the result publisher
CtorTransports ==
    /\ ctor.pc = "transports"
    /\ ctor' = [ctor EXCEPT !.pc = "ready", !.command = TRUE,
                            !.publisher = TRUE]
    /\ UNCHANGED <<manager_vars, reg, conf>>

CtorNext ==
    \/ CtorBegin
    \/ CtorRegister
    \/ CtorCheckId
    \/ CtorMapper
    \/ CtorRegData
    \/ CtorWriteJson
    \/ CtorTransports

CtorSpec == Init /\ [][CtorNext]_vars

\* ------------------------------------------------------ register_endpoint
\* what funcx_client.register_endpoint does: it raises, or it returns
\* registration info without endpoint_id, with an endpoint_id that is not a
\* string, or with a string endpoint_id; forwarder_pubkey is there or not
RegInfos ==
    {[kind |-> "raise", has_id |-> FALSE, is_str |-> FALSE, id |-> NoId,
      pubkey |-> FALSE]}
    \cup [kind : {"ok"}, has_id : {FALSE}, is_str : {FALSE}, id : {NoId},
          pubkey : BOOLEAN]
    \cup [kind : {"ok"}, has_id : {TRUE}, is_str : {FALSE}, id : {NoId},
          pubkey : BOOLEAN]
    \cup [kind : {"ok"}, has_id : {TRUE}, is_str : {TRUE}, id : UUIDs,
          pubkey : BOOLEAN]

\* the variables register_endpoint leaves alone
not_reg_vars == <<manager_vars, ctor, conf>>

\* the call: the requested endpoint id, and the endpoint directory, where
\* endpoint.json may be left from an earlier registration
RegisterBegin ==
    /\ reg.pc = "idle"
    /\ \E uuid \in UUIDs, old \in UUIDs \cup {NoId} :
         reg' = [RegIdle EXCEPT !.pc = "call", !.endpoint_uuid = uuid,
                                !.file = (old # NoId), !.file_id = old]
    /\ UNCHANGED not_reg_vars

\* lines 24-28: the registration with the service
RegisterCall ==
    /\ reg.pc = "call"
    /\ \E r \in RegInfos :
         reg' = IF r.kind = "raise"
                THEN [reg EXCEPT !.pc = "raised", !.raised = "Exception"]
                ELSE [reg EXCEPT !.pc = "validate", !.has_id = r.has_id,
                                 !.is_str = r.is_str, !.id = r.id,
                                 !.pubkey = r.pubkey]
    /\ UNCHANGED not_reg_vars

\* lines 30-35: the backup error handler
RegisterValidate ==
    /\ reg.pc = "validate"
    /\ reg' = IF ~reg.has_id \/ ~reg.is_str
              THEN [reg EXCEPT !.pc = "raised", !.raised = "Exception"]
              ELSE [reg EXCEPT !.pc = "write_json"]
    /\ UNCHANGED not_reg_vars

\* lines 37-39: json.dump(reg_info) to endpoint.json, unless open() raises
RegisterWriteJson ==
    /\ reg.pc = "write_json"
    /\ \E err \in {"none", "OSError"} :
         reg' = IF err = "none"
                THEN [reg EXCEPT !.pc = "certs", !.file = TRUE,
                                 !.file_id = reg.id]
                ELSE [reg EXCEPT !.pc = "raised", !.raised = err]
    /\ UNCHANGED not_reg_vars

\* lines 41-42: os.makedirs(certs_dir, exist_ok=True)
RegisterCerts ==
    /\ reg.pc = "certs"
    /\ \E err \in {"none", "OSError"} :
         reg' = IF err = "none"
                THEN [reg EXCEPT !.pc = "key", !.certs_dir = TRUE]
                ELSE [reg EXCEPT !.pc = "raised", !.raised = err]
    /\ UNCHANGED not_reg_vars

\* lines 43-52: the server key, whose failures are logged and dropped, and
\* the return
RegisterKey ==
    /\ reg.pc = "key"
    /\ \E err \in {"none", "OSError"} :
         reg' = [reg EXCEPT !.pc = "returned",
                            !.keyfile = (reg.pubkey /\ err = "none")]
    /\ UNCHANGED not_reg_vars

RegisterNext ==
    \/ RegisterBegin
    \/ RegisterCall
    \/ RegisterValidate
    \/ RegisterWriteJson
    \/ RegisterCerts
    \/ RegisterKey

RegisterSpec == Init /\ [][RegisterNext]_vars

\* ------------------------------------------------------- Config.__init__
\* the keyword arguments Config() does not name
ExtraKwargs == {"results_ws_uri", "warn_about_url_mismatch", "_internal",
                "debug"}

\* identity_mapping_config_path: None, the empty string, or a path
\* ("locked" is a directory the process may not search)
PathArgs == {None, "", "idc.json", "gone.json", "etc//gone.json",
             "locked/idc.json"}

\* the truth value of a path argument
Truthy(p) == p \notin {None, ""}

\* str(pathlib.Path(p)): repeated slashes collapse
PathStr(p) == IF p = "etc//gone.json" THEN "etc/gone.json" ELSE p

\* os.stat(p): the errno
Stat(files, p) == IF PathStr(p) = "locked/idc.json" THEN "EACCES"
                  ELSE IF PathStr(p) \in files THEN "ok" ELSE "ENOENT"

\* a file system in which every path exists
ExistsAlways(files, p) == TRUE
\* pathlib.Path(p).exists(): stat() succeeds; ENOENT is no file, any other
\* error but ENOTDIR, EBADF and ELOOP is raised
Exists(files, p) == Stat(files, p) = "ok"
ExistsRaises(files, p) == Stat(files, p) = "EACCES"

\* the variables Config.__init__ leaves alone
not_conf_vars == <<manager_vars, ctor, reg>>

ConfWarn(c, about, name) ==
    [c EXCEPT !.warned = Append(@, [about |-> about, name |-> name])]

\* lines 141-162: the arguments, and the files that exist
ConfigBegin ==
    /\ conf.pc = "idle"
    /\ \E kw \in SUBSET ExtraKwargs, path \in PathArgs,
          files \in {{}, {"idc.json"}}, soft \in {-1, 0, 3},
          mu \in {None, "True", "False"} :
         /\ Cardinality(kw) <= 2
         /\ conf' = [ConfIdle EXCEPT !.pc = "deprecated", !.kwargs = kw,
                                     !.path = path, !.files = files,
                                     !.soft = soft, !.multi_user_arg = mu]
    /\ UNCHANGED not_conf_vars

\* lines 163-171: a warning for each deprecated argument, which is dropped
ConfigDeprecated ==
    /\ conf.pc = "deprecated"
    /\ LET c1 == IF "results_ws_uri" \in conf.kwargs
                 THEN ConfWarn(conf, "deprecated", "results_ws_uri")
                 ELSE conf
           c2 == IF "warn_about_url_mismatch" \in conf.kwargs
                 THEN ConfWarn(c1, "deprecated", "warn_about_url_mismatch")
                 ELSE c1
       IN conf' = [c2 EXCEPT !.pc = "unknown",
                             !.kwargs = @ \ {"results_ws_uri",
                                             "warn_about_url_mismatch"}]
    /\ UNCHANGED not_conf_vars

\* lines 180-192: _internal is taken out, and a warning for each argument
\* that is left
ConfigUnknown ==
    /\ conf.pc = "unknown"
    /\ LET left == conf.kwargs \ {"_internal"}
       IN conf' = [(IF "debug" \in left
                    THEN ConfWarn(conf, "unknown", "debug") ELSE conf)
                   EXCEPT !.pc = "multi_user", !.kwargs = left]
    /\ UNCHANGED not_conf_vars

\* lines 201-209: the multi-user settings
ConfigMultiUser ==
    /\ conf.pc = "multi_user"
    /\ LET c == [conf EXCEPT !.pc = "single_user",
                             !.multi_user = (conf.multi_user_arg = "True"),
                             !.identity_mapping_config_path = conf.path]
       IN conf' = IF ~Truthy(conf.path) THEN c
                  ELSE IF ExistsRaises(conf.files, conf.path)
                  THEN [c EXCEPT !.pc = "raised", !.raised = "PermissionError"]
                  ELSE IF ~Exists(conf.files, conf.path)
                  THEN ConfWarn(c, "path not found", PathStr(conf.path))
                  ELSE c
    /\ UNCHANGED not_conf_vars

\* lines 211-235: the other settings
ConfigRest ==
    /\ conf.pc = "single_user"
    /\ conf' = [conf EXCEPT !.pc = "done",
                            !.idle_heartbeats_soft = Max(0, conf.soft)]
    /\ UNCHANGED not_conf_vars

ConfigNext ==
    \/ ConfigBegin
    \/ ConfigDeprecated
    \/ ConfigUnknown
    \/ ConfigMultiUser
    \/ ConfigRest

ConfigSpec == Init /\ [][ConfigNext]_vars

\* ------------------------------------------------------------ properties
Range(q) == {q[i] : i \in DOMAIN q}

\* C1: the loop acks a delivery before it invokes a command handler for it:
\* the delivery the loop is handling, every delivery whose handling has ended
\* and the one a handler was just called for are all acked.
C1_AckBeforeHandler ==
    /\ (pc = "handle" => cur \in Range(acked))
    /\ (ev.kind = "handle" /\ ev.handler => ev.tag \in Range(acked))
    /\ Range(processed) \subseteq Range(acked)

C1_Witness == ev.kind = "handle" /\ ev.handler /\ ev.tag \in Range(acked)

\* C2: a pid is a key of the child registry if and only if the manager forked
\* it and has not reaped it.
C2_RegistryIsUnreaped == ChildPids(children) = DOMAIN procs

\* C3 as stated: a command more than 180 s away from the wall clock gets no
\* handler, a failure-notice helper and no user endpoint; one at most 180 s
\* away passes the gate (commands that do not decode and iterations in which
\* fork() fails set aside).
C3_Original ==
    /\ ev.kind = "handle" /\ ev.json /\ ev.decoded
    /\ ev.notice # "fork_failed" /\ ev.outcome # "OSError"
    => /\ (ev.skew > 2 * max_skew_s
           => ~ev.handler /\ ev.uep = NoPid
              /\ ev.notice \in {"registered", "unregistered"})
       /\ (ev.skew <= 2 * max_skew_s => ev.outcome # "stale")

\* C3: a decodable command more than 180.5 s away from the wall clock is
\* ignored: the loop calls no handler, calls send_failure_notice and registers
\* no user endpoint; a command at most 180 s away passes the gate.
C3_StaleIgnored ==
    ev.kind = "handle" /\ ev.json /\ ev.decoded
    => /\ (ev.skew > 2 * max_skew_s + 1
           => ev.outcome = "stale" /\ ~ev.handler /\ ev.uep = NoPid
              /\ ev.notice # "none")
       /\ (ev.skew <= 2 * max_skew_s => ev.outcome # "stale")

C3_Witness ==
    /\ ev.kind = "handle" /\ ev.json /\ ev.decoded
    /\ ev.skew > 2 * max_skew_s + 1 /\ ev.notice = "registered"

\* C4: for a command whose content type is not JSON or whose body does not
\* decode, no handler is invoked, no user endpoint is forked and the loop goes
\* on to its next pass.
C4_UndecodableDropped ==
    ev.kind = "handle" /\ (~ev.json \/ ~ev.decoded)
    => ~ev.handler /\ ev.uep = NoPid /\ pc = "loop"

C4_Witness == ev.kind = "handle" /\ ~ev.json /\ ev.decoded /\ pc = "loop"

\* C5 as stated: a command whose content type is not JSON gets a
\* failure-notice helper that is forked and recorded in the registry.
C5_Original == ev.kind = "handle" /\ ~ev.json => ev.notice = "registered"

\* C5: for a command whose content type is not JSON no failure-notice helper
\* is forked: the iteration leaves the registry and the process table as
\* they were.
C5_NoNoticeForNonJson ==
    [][pc = "handle" /\ ev'.kind = "handle" /\ ~ev'.json
       => /\ ev'.notice = "none" /\ ev'.pid = NoPid
          /\ children' = children /\ procs' = procs]_vars

C5_Witness == ev.kind = "handle" /\ ~ev.json /\ ev.notice = "none"

\* C6 as stated: on a manager without an identity mapper every command that
\* is not dispatched gets a failure notice (iterations in which fork() fails
\* set aside).
C6_Original ==
    /\ ~identity_mapper /\ ev.kind = "handle" /\ ev.notice # "fork_failed"
    /\ ~ev.handler
    => ev.notice # "none"

\* C6: a manager that cannot change uid has no identity mapper, whatever
\* identity mapping path is configured; without a mapper a handler is invoked
\* only for a command with a sub in the parent identity set, and then under
\* the manager's own passwd entry; every other command forks no user endpoint
\* and, if it decodes, has send_failure_notice called.
C6_OnlyParentIdentities ==
    /\ (~UserPrivileged(cfg) => ~identity_mapper)
    /\ (~identity_mapper /\ ev.kind = "handle"
        => /\ (ev.handler => ev.trusted /\ ev.user = mu_user)
           /\ (~ev.handler => ev.uep = NoPid)
           /\ (~ev.handler /\ ev.json /\ ev.decoded => ev.notice # "none"))

C6_Witness ==
    /\ ~identity_mapper /\ cfg.path /\ ev.kind = "handle"
    /\ ev.handler /\ ev.trusted /\ ev.outcome = "started"

\* C7: a cmd_start_endpoint call whose name is the ep_name of a registered
\* child stores (passwd entry, args, kwargs) in the cached arguments under
\* that child's pid, forks nothing and leaves the registry as it was; from
\* _revive_child the registry is the one the reaped child has left.
C7_CachedNotForked ==
    [][/\ (pc = "handle" /\ ev'.kind = "handle" /\ ev'.handler
           /\ ev'.name \in {children[i].ep_name : i \in DOMAIN children}
           => /\ children' = children /\ procs' = procs /\ ev'.uep = NoPid
              /\ \E i \in DOMAIN children :
                   /\ children[i].ep_name = ev'.name
                   /\ ev'.cached_at = children[i].pid
                   /\ Live(cached', children[i].pid, mono)
                   /\ cached'[children[i].pid].user = ev'.user
                   /\ cached'[children[i].pid].kw = ev'.tag
                   /\ cached'[children[i].pid].name = ev'.name)
       /\ (pc = "waitpid" /\ ev'.kind = "reap" /\ ev'.restart
           /\ (\E i \in DOMAIN children :
                 children[i].pid # ev'.pid /\ children[i].ep_name = ev'.name)
           => /\ children' = WithoutPid(children, ev'.pid) /\ ev'.uep = NoPid
              /\ ev'.cached_at \in ChildPids(children'))]_vars

C7_Witness ==
    /\ ev.kind = "handle" /\ ev.outcome = "cached"
    /\ ev.cached_at \in ChildPids(children)
    /\ Live(cached, ev.cached_at, mono)

C10_InOrder ==
    /\ \A i \in DOMAIN acked : acked[i] = i
    /\ \A i \in DOMAIN processed : processed[i] = i
    /\ Len(processed) <= Len(acked)
    /\ Len(acked) <= Len(processed) + 1
    /\ (Len(acked) = Len(processed) + 1 <=> pc = "handle")

C10_Witness == ev.kind = "get" /\ ev.tag = 2 /\ processed = <<1>>


\* C11: a command that passes the freshness gate and identity resolution but
\* whose method name fails the pattern or names no handler is rejected: a
\* failure-notice helper is forked and recorded, no user endpoint is forked
\* and the loop goes on (iterations in which fork() fails set aside).
C11_Original ==
    ev.kind = "handle" /\ ev.outcome = "invalid_command"
    /\ ev.notice # "fork_failed"
    => ev.notice = "registered" /\ ev.uep = NoPid /\ pc = "loop"

\* C12: a cmd_start_endpoint call for a name that no registered child has,
\* for a user the manager may start endpoints for and with fork() succeeding,
\* appends exactly one record to the registry, under a pid that was not in
\* it, with that name; so N such calls for N distinct names, from an empty
\* registry and without exits, leave N user endpoint children, one per name.
C12_OneChildPerName ==
    [][pc = "handle" /\ ev'.kind = "handle" /\ ev'.handler /\ ev'.name # ""
       /\ (\A i \in DOMAIN children : children[i].ep_name # ev'.name)
       /\ ev'.outcome \notin {"OSError", "InvalidUserError"}
       => /\ children' = Append(children, [pid |-> ev'.uep, ep_name |-> ev'.name,
                                           user |-> ev'.user])
          /\ ev'.uep \in Pids \ ChildPids(children)
          /\ procs'[ev'.uep].kind = "uep"
          /\ Cardinality({i \in DOMAIN children' :
                            children'[i].ep_name = ev'.name}) = 1]_vars

C12_Witness ==
    /\ ev.kind = "handle" /\ ev.outcome = "started"
    /\ Len(children) = 2
    /\ {children[i].ep_name : i \in DOMAIN children} = Names
    /\ \A i \in DOMAIN children : procs[children[i].pid].kind = "uep"

\* C13: the forked branch of cmd_start_endpoint never returns to its caller:
\* a launch child that has left the try statement has exec'ed or has ended
\* with the breadcrumb exit code, which is 70 or more and never 0, also when
\* the failure notifier it called had asked for exit code 0.
C13_ChildNeverReturns ==
    /\ lc.pc # "returned"
    /\ lc.pc = "exited" => /\ lc.status = lc.exit_code
                           /\ lc.status >= 70
                           /\ lc.failed # ""
    /\ lc.pc = "execed" => lc.failed = "" /\ lc.status = -1

C13_Witness ==
    lc.pc = "exited" /\ lc.pending = 0 /\ lc.failed = "setresuid"
    /\ lc.status = 73 /\ lc.caller = "_revive_child"

C15_Original ==
    \A a, b \in lc.seen : a.code = b.code => a.op = b.op

\* C16 as stated: every cmd_start_endpoint call for the manager's own user
\* (same name or same uid) is refused with InvalidUserError, registry and
\* cached arguments untouched, when the manager is privileged and
\* force_mu_allow_same_user is false, and goes on to fork otherwise.
C16_Original ==
    [][pc = "handle" /\ ev'.kind = "handle" /\ ev'.handler /\ ev'.name # ""
       /\ (ev'.user = mu_user \/ UidOf(ev'.user) = UidOf(mu_user))
       => IF Privileged(cfg) /\ ~cfg.force
          THEN /\ ev'.outcome = "InvalidUserError" /\ ev'.uep = NoPid
               /\ cached' = cached
          ELSE ev'.outcome \in {"started", "OSError"}]_vars

\* C16: the same for the calls whose endpoint name no registered child has:
\* refused before any fork of a user endpoint (the registry gains at most
\* the failure-notice helper of the loop, the cached arguments are
\* untouched) when the manager is privileged and force_mu_allow_same_user is
\* false; otherwise fork() is called, and the child is registered unless
\* fork() fails.
C16_SameUserRefused ==
    [][pc = "handle" /\ ev'.kind = "handle" /\ ev'.handler /\ ev'.name # ""
       /\ (\A i \in DOMAIN children : children[i].ep_name # ev'.name)
       /\ (ev'.user = mu_user \/ UidOf(ev'.user) = UidOf(mu_user))
       => IF Privileged(cfg) /\ ~cfg.force
          THEN /\ ev'.outcome = "InvalidUserError" /\ ev'.uep = NoPid
               /\ cached' = cached
               /\ Len(children') >= Len(children)
               /\ SubSeq(children', 1, Len(children)) = children
               /\ \A i \in DOMAIN children' :
                    i > Len(children) => children'[i].user = NoUser
               /\ \A p \in DOMAIN procs' \ DOMAIN procs :
                    procs'[p].kind = "helper"
          ELSE /\ ev'.outcome \in {"started", "OSError"}
               /\ ev'.outcome = "started" <=> ev'.uep # NoPid
               /\ ev'.outcome = "started" =>
                    children' = Append(children,
                                       [pid |-> ev'.uep, ep_name |-> ev'.name,
                                        user |-> ev'.user])]_vars

C16_Witness ==
    /\ ev.kind = "handle" /\ ev.outcome = "InvalidUserError"
    /\ ev.user = alias_user /\ ev.uep = NoPid /\ ev.notice = "registered"
    /\ Privileged(cfg) /\ ~cfg.force

\* C17: a heartbeat published by the shutdown sequence carries
\* heartbeat_period 0, a heartbeat published by the dispatch loop carries the
\* effective period, which is at least the minimum and so not 0: a published
\* heartbeat has period 0 iff it is the one of the shutdown sequence
\* (ev.period is -1 when the step published nothing).
C17_ZeroIffShuttingDown ==
    ev.period # -1 =>
      /\ ev.kind \in {"get", "queue_empty", "shutdown"}
      /\ ev.kind = "shutdown" => ev.period = 0 /\ pc = "wait_term"
      /\ ev.kind \in {"get", "queue_empty"} =>
           /\ ev.period = heartbeat_period
           /\ ev.period >= MINIMUM_HEARTBEAT
           /\ ev.period = Max(MINIMUM_HEARTBEAT, cfg.heartbeat_period)
      /\ ev.period = 0 <=> ev.kind = "shutdown"

C17_Witness ==
    ev.kind = "shutdown" /\ ev.period = 0 /\ heartbeat_period = 30
    /\ last_heartbeat = mono

C19_CredsRestored ==
    /\ pc # "killed" => creds = [uid |-> UidOf(mu_user), gid |-> GidOf(mu_user)]
    /\ \A k \in DOMAIN ev.attempts :
         ~(ev.kind = "sigkill_self" /\ k = Len(ev.attempts))
         => ev.attempts[k].after = [uid |-> UidOf(mu_user),
                                    gid |-> GidOf(mu_user)]

C19_Witness ==
    /\ ev.kind = "sigkill_pass"
    /\ \E k \in DOMAIN ev.attempts :
         /\ ev.attempts[k].failed = "killpg"
         /\ ev.attempts[k].during.uid = UidOf("alice")
         /\ ev.attempts[k].during.uid # creds.uid
         /\ ev.attempts[k].after = creds

\* C20 as stated: once the loop has ended the shutdown sequence is never
\* cut short: the manager is not ended before start() returns.
C20_Original == pc # "killed"

\* C21 as stated: a command that fails identity resolution or command
\* validation is never fatal: after the iteration that rejects it, also when
\* the fork of the failure-notice helper fails, the dispatch loop goes on.
C21_Original ==
    ev.kind = "handle"
    /\ ev.outcome \in {"untrusted", "unmapped", "no_local_user",
                       "invalid_command", "InvalidCommandError",
                       "InvalidUserError"}
    => pc = "loop"

\* __init__ has ended: it returned, called sys.exit() or raised
CtorEnded == ctor.pc \in {"ready", "exited", "raised"}

\* C22 as stated: a manager that can change uid and has no
\* identity_mapping_config_path ends its start-up with exit code EX_OSFILE.
C22_Original ==
    UserPrivileged(cfg) /\ ~cfg.path /\ CtorEnded
    => ctor.pc = "exited" /\ ctor.exit = EX_OSFILE

\* C22: a manager that can change uid and has no identity_mapping_config_path
\* never gets past the identity mapper step: it constructs no identity
\* mapper, command subscriber or result publisher and does not write
\* endpoint.json.  Its start-up ends with EX_OSFILE exactly when it got as far
\* as that step, that is when the registration and the endpoint id check
\* passed; otherwise it has ended before, with the exit code or the exception
\* of that failure.
C22_NoPathNoTransports ==
    UserPrivileged(cfg) /\ ~cfg.path =>
      /\ ctor.pc \notin {"reg_data", "write_json", "transports", "ready"}
      /\ ~ctor.mapper /\ ~ctor.command /\ ~ctor.publisher /\ ~ctor.written
      /\ ctor.pc = "exited" =>
           (ctor.exit = EX_OSFILE <=> ctor.endpoint_uuid # NoId)
      /\ ctor.pc = "exited" /\ ctor.exit # EX_OSFILE =>
           ctor.exit \in {EX_UNAVAILABLE, EX_DATAERR, EX_TEMPFAIL, EX_SOFTWARE}
      /\ ctor.pc = "raised" => ctor.endpoint_uuid = NoId

C22_Witness ==
    /\ UserPrivileged(cfg) /\ ~cfg.path
    /\ ctor.pc = "exited" /\ ctor.exit = EX_OSFILE
    /\ ctor.registered /\ ctor.endpoint_uuid = "U2"
    /\ ~ctor.command /\ ~ctor.publisher

\* C23: when the registration call of __init__ fails with an API error of
\* status 409, 423 or 404 the manager exits with EX_UNAVAILABLE, of status 400
\* or 422 with EX_DATAERR, and with a network error with EX_TEMPFAIL; after
\* any failed registration __init__ has ended without writing endpoint.json
\* and without constructing the subscriber and the publisher, so start() and
\* its dispatch loop are never entered.
C23_RegistrationFailureExits ==
    ctor.registered /\ ctor.error # "" =>
      /\ ctor.pc \in {"exited", "raised"}
      /\ ~ctor.written /\ ~ctor.command /\ ~ctor.publisher
      /\ ctor.endpoint_uuid = NoId
      /\ ctor.error = "GlobusAPIError" /\ ctor.status \in {409, 423, 404} =>
           ctor.pc = "exited" /\ ctor.exit = EX_UNAVAILABLE
      /\ ctor.error = "GlobusAPIError" /\ ctor.status \in {400, 422} =>
           ctor.pc = "exited" /\ ctor.exit = EX_DATAERR
      /\ ctor.error = "NetworkError" =>
           ctor.pc = "exited" /\ ctor.exit = EX_TEMPFAIL

C23_Witness ==
    /\ ctor.registered /\ ctor.error = "GlobusAPIError" /\ ctor.status = 404
    /\ ctor.pc = "exited" /\ ctor.exit = EX_UNAVAILABLE
    /\ ctor.endpoint_json = "U1" /\ ~ctor.written

\* C24: once __init__ is past the endpoint id check: if an endpoint id was
\* known (from endpoint.json, else from the argument) and the registration
\* info carries another one, the manager has exited with EX_SOFTWARE and
\* endpoint.json is as it was; if the registration info carries an endpoint
\* id and none was known or the known one is the same, the manager goes on
\* with the id of the registration info, which is also what it writes to
\* endpoint.json.
C24_MismatchedIdExits ==
    ctor.have_reg /\ ctor.pc \notin {"idle", "register", "check_id"} =>
      /\ ctor.known # NoId /\ ctor.upstream # ctor.known =>
           /\ ctor.pc = "exited" /\ ctor.exit = EX_SOFTWARE
           /\ ~ctor.written /\ ctor.endpoint_json \in {NoId, ctor.known}
           /\ ctor.endpoint_uuid = NoId
      /\ ctor.upstream # NoId /\ ctor.known \in {NoId, ctor.upstream} =>
           /\ ctor.endpoint_uuid = ctor.upstream
           /\ ctor.pc # "raised"
           /\ ctor.pc = "exited" => ctor.exit # EX_SOFTWARE
           /\ ctor.written => ctor.endpoint_json = ctor.upstream
           /\ ctor.pc = "ready" => ctor.written

C24_Witness ==
    /\ ctor.registered /\ ctor.known = "U1" /\ ctor.upstream = "U2"
    /\ ctor.pc = "exited" /\ ctor.exit = EX_SOFTWARE
    /\ ctor.endpoint_json = "U1" /\ ~ctor.written

\* C25: the effective heartbeat period is the configured one when that is
\* above 5 and 5 otherwise, so it is at least 5; the dispatch loop sends a
\* heartbeat exactly when that many seconds have passed since the last one,
\* and a heartbeat it publishes reports that period.
C25_EffectivePeriod ==
    [][LET m == IF cfg.heartbeat_period > MINIMUM_HEARTBEAT
                THEN cfg.heartbeat_period ELSE MINIMUM_HEARTBEAT
           due == mono - last_heartbeat >= m
       IN /\ heartbeat_period = m /\ heartbeat_period' = m
          /\ heartbeat_period >= 5
          /\ ev'.kind \in {"get", "queue_empty"} =>
               /\ ev'.period # -1 => due /\ ev'.period = m
               /\ due => last_heartbeat' = mono
               /\ ~due => last_heartbeat' = last_heartbeat /\ ev'.period = -1
          /\ ev'.kind \notin {"get", "queue_empty", "shutdown"} =>
               ev'.period = -1]_vars

C25_Witness ==
    /\ ev.kind = "queue_empty" /\ ev.period = MINIMUM_HEARTBEAT
    /\ cfg.heartbeat_period = 0 /\ heartbeat_period = MINIMUM_HEARTBEAT
    /\ last_heartbeat = mono

\* C26 as stated: when the loop calls cmd_start_endpoint with kwargs that
\* have no non-empty name, the call raises InvalidCommandError, no child is
\* forked for an endpoint, the cached-args map stays as it is, the registry
\* gains no endpoint, and the requester gets a failure notice: when the fork
\* of the helper succeeds, the helper is the one entry the registry gains
\* and the loop goes on.
C26_Original ==
    [][ev'.kind = "handle" /\ ev'.handler /\ ev'.name = "" /\ ev'.pid # NoPid
       => /\ ev'.outcome = "InvalidCommandError"
          /\ ev'.uep = NoPid /\ ev'.cached_at = NoPid
          /\ cached' = cached
          /\ WithoutPid(children', ev'.pid) = children
          /\ ev'.notice = "registered"
          /\ ev'.pid \in ChildPids(children')
          /\ pc' = "loop"]_vars

\* C27 as stated: after register_endpoint has returned, endpoint.json exists
\* in the endpoint directory and its endpoint_id is the requested id.
C27_Original ==
    reg.pc = "returned" => reg.file /\ reg.file_id = reg.endpoint_uuid

\* C28: when identity_mapping_config_path names a file that is not there,
\* Config.__init__ does not raise: past that step it has warned that the
\* identity mapping config path is not found, naming the path, it holds the
\* path as it was given, and it runs to its end.
C28_MissingPathWarns ==
    Truthy(conf.path) /\ Stat(conf.files, conf.path) = "ENOENT"
    /\ conf.pc \notin {"idle", "deprecated", "unknown", "multi_user"}
    => /\ conf.pc \in {"single_user", "done"} /\ conf.raised = ""
       /\ conf.warned # <<>>
       /\ conf.warned[Len(conf.warned)] =
            [about |-> "path not found", name |-> PathStr(conf.path)]
       /\ conf.identity_mapping_config_path = conf.path

C28_Witness ==
    /\ conf.pc = "done" /\ conf.path = "etc//gone.json"
    /\ conf.files = {"idc.json"} /\ conf.multi_user
    /\ conf.warned = <<[about |-> "path not found", name |-> "etc/gone.json"]>>
    /\ conf.identity_mapping_config_path = "etc//gone.json"

\* C29: when a child that exited with 0 is reaped and a live cached entry is
\* under its pid, _revive_child is called iff the manager is not shutting
\* down, and it calls cmd_start_endpoint only if the passwd entry of the
\* cached user is found again; if it is not found (KeyError) no child is
\* forked.  In every case the entry under that pid is gone from the cache
\* and the record of the dead child is gone from the registry, which
\* otherwise only gains the record of the revived child.
C29_RevivalGuarded ==
    [][ev'.kind = "reap" /\ ev'.rc = 0 /\ ev'.live =>
         /\ ev'.pid \in DOMAIN cached /\ ev'.pid \notin DOMAIN cached'
         /\ ev'.revive <=> ~ev'.stop
         /\ ev'.restart => ev'.revive /\ ev'.outcome # "KeyError"
         /\ ev'.outcome = "KeyError" =>
              ev'.revive /\ ~ev'.restart /\ ev'.uep = NoPid
         /\ ev'.uep # NoPid => ev'.restart
         /\ ev'.uep = NoPid =>
              /\ children' = WithoutPid(children, ev'.pid)
              /\ DOMAIN procs' = DOMAIN procs \ {ev'.pid}
         /\ ev'.uep # NoPid =>
              /\ children' = Append(WithoutPid(children, ev'.pid),
                                    [pid |-> ev'.uep, ep_name |-> ev'.name,
                                     user |-> ev'.user])
              /\ DOMAIN procs' = (DOMAIN procs \ {ev'.pid}) \cup {ev'.uep}]_vars

C29_Witness ==
    /\ ev.kind = "reap" /\ ev.rc = 0 /\ ev.live /\ ~ev.stop
    /\ ev.revive /\ ev.outcome = "KeyError" /\ ev.uep = NoPid
    /\ ev.pid \notin ChildPids(children) /\ ev.pid \notin DOMAIN cached
    /\ ev.pid \notin DOMAIN procs

\* C30 as stated: no signalling attempt of the shutdown sequence delivers
\* SIGKILL to the process group the manager is in (group NoPid in an
\* attempt), whatever children are registered.
C30_Original ==
    \A i \in DOMAIN ev.attempts :
      ~(/\ ev.attempts[i].signum = SIGKILL
        /\ ev.attempts[i].delivered
        /\ ev.attempts[i].group = NoPid)

\* start() is past the dispatch loop and has begun the shutdown sequence
InShutdown ==
    \/ pc \in {"wait_term", "wait_kill", "killed", "done"}
    \/ pc = "waitpid" /\ wfc_ret \in {"wait_term", "wait_kill"}

C32_Original ==
    ev.kind = "reap" => ~Live(cached, ev.pid, mono)

\* C33 as stated: no two entries of the child registry have the same
\* ep_name.
C33_Original ==
    \A i, j \in DOMAIN children :
      i # j => children[i].ep_name # children[j].ep_name

\* C34, as stated: every failure-notice helper that exists and has not been
\* reaped is a key of the registry, recorded without a local user, and a
\* helper that has ended ended with exit code 0
C34_Original ==
    \A p \in DOMAIN procs :
      procs[p].kind = "helper" =>
        /\ \E i \in DOMAIN children :
              children[i].pid = p /\ children[i].user = NoUser
        /\ procs[p].st = "zombie" => procs[p].rc = 0

\* C35, as stated, for a child that ends before the shutdown passes have
\* begun: its SIGCHLD is not lost, the manager eventually reaps the child
C35_Original ==
    \A p \in Pids :
      (p \in Zombies /\ (InLoop \/ pc = "shutdown")) ~> (p \notin Zombies)

\* C36: a pass of the dispatch loop sets the stop flag only when its poll
\* found the queue empty and the subscriber's stop event set; a poll that
\* finds a delivery takes the oldest one, acks it and hands it on to be
\* processed, stop event or not, and leaves the stop flag as it was
C36_StopEventOnEmptyPoll ==
    [][/\ (pc \in {"loop", "poll"} /\ ~time_to_stop /\ time_to_stop'
            /\ ev'.kind # "env")
         => /\ ev'.kind = "queue_empty"
            /\ command_queue = <<>> /\ command_stop_event
            /\ pc' = "loop"
       /\ (ev'.kind = "queue_empty" /\ command_stop_event) => time_to_stop'
       /\ (pc \in {"loop", "poll"} /\ command_queue # <<>>
            /\ ev'.kind \notin {"env", "loop_ends", "wait_begins"})
         => /\ ev'.kind = "get" /\ ev'.tag = Head(command_queue)
            /\ acked' = Append(acked, Head(command_queue))
            /\ command_queue' = Tail(command_queue)
            /\ pc' = "handle" /\ cur' = Head(command_queue)
            /\ time_to_stop' = time_to_stop]_vars

\* a delivery is taken and acked after the stop event was set, and the loop
\* goes on to process it
C36_Witness ==
    /\ ev.kind = "get" /\ command_stop_event /\ ~time_to_stop
    /\ pc = "handle" /\ acked # <<>> /\ acked[Len(acked)] = cur

\* C37: when a child that exited with 0 is reaped and the grace period has
\* elapsed since the entry under its pid was cached, _revive_child is not
\* called and nothing is forked: the reap only removes the child from the
\* registry and the process table
C37_ExpiredNotRevived ==
    [][(/\ ev'.kind = "reap" /\ ev'.rc = 0
        /\ ev'.pid \in DOMAIN cached
        /\ mono >= cached[ev'.pid].expires)
       => /\ ~ev'.revive /\ ~ev'.restart /\ ev'.uep = NoPid
          /\ DOMAIN procs' = DOMAIN procs \ {ev'.pid}
          /\ children' = WithoutPid(children, ev'.pid)]_vars

\* a child whose entry has expired exits with 0 while the manager is not
\* shutting down, and is reaped without a revival
C37_Witness ==
    /\ ev.kind = "reap" /\ ev.rc = 0 /\ ~ev.stop /\ ~ev.revive
    /\ ev.pid \in DOMAIN cached /\ mono >= cached[ev.pid].expires
    /\ ev.pid \notin ChildPids(children) /\ ev.pid \notin DOMAIN procs

C39_AckedExactlyOnce ==
    /\ \A i, j \in DOMAIN acked : i # j => acked[i] # acked[j]
    /\ \A i, j \in DOMAIN processed : i # j => processed[i] # processed[j]
    /\ {acked[i] : i \in DOMAIN acked}
         = (1..ndeliveries) \ {command_queue[i] : i \in DOMAIN command_queue}
    /\ {processed[i] : i \in DOMAIN processed}
         = {acked[i] : i \in DOMAIN acked} \ {cur}
    /\ ev.kind = "handle"
       => Cardinality({i \in DOMAIN acked : acked[i] = ev.tag}) = 1

\* two deliveries have been taken and acked, the first was handed to its
\* handler and the second rejected
C39_Witness ==
    /\ ev.kind = "handle" /\ ev.tag = 2 /\ ~ev.handler
    /\ ev.outcome \in {"undecodable", "stale", "untrusted", "invalid_command"}
    /\ acked = <<1, 2>> /\ processed = <<1, 2>> /\ command_queue = <<>>

====
